---- MODULE Spec2Model ----
(***************************************************************************)
(* A model of the curation and feedback engine of the newsletter           *)
(* generator: the preference store (core/preferences.ts), the feedback     *)
(* adapter (core/feedback.ts), the paid curation strategies                *)
(* (ai-providers/openai-provider.ts, claude-provider.ts), the heuristic    *)
(* strategy (ai-providers/free-provider.ts) and the deduplicator           *)
(* (aggregators/rss-aggregator.ts).                                        *)
(*                                                                         *)
(* Numbers.  Preference scores are held in hundredths (0.05 is 5, 1 is     *)
(* 100), so that the arithmetic of the code is exact integer arithmetic.   *)
(***************************************************************************)
EXTENDS Integers, Sequences, FiniteSets, TLC

Max(a, b) == IF a >= b THEN a ELSE b
Min(a, b) == IF a <= b THEN a ELSE b

(***************************************************************************)
(* PREFERENCE STORE AND FEEDBACK ADAPTER                                   *)
(***************************************************************************)

\* The number of asynchronous calls (update / processFeedback) a behaviour issues.
MaxCalls == 2

Calls == 1..MaxCalls

\* The null reference (userPreferences = null).
Null == 0

\* The object JSON.parse allocates in call p's loadUserPreferences, and the
\* object deepMerge allocates in call p's updateUserPreferences.
LoadObj(p) == 2 * p - 1
MergeObj(p) == 2 * p

\* One hundredth-scaled score step of the feedback adapter: 0.05.
Adjustment == 5

\* The preferences documents the store may hold on disk when the process starts.
InitScores == {3, 50, 98}

Document(s, v) ==
  [topics |->
     [technology |-> [interest_score |-> s,
                      keywords |-> <<"ai", "software">>,
                      subtopics |-> [artificial_intelligence |-> v]],
      science |-> [interest_score |-> 50, keywords |-> <<"research">>]],
   reading_patterns |-> [max_articles_per_category |-> 2, diversity_vs_focus |-> 50]]

InitDocuments == {Document(s, s) : s \in InitScores}

\* The partial preferences handed to update().
Partials ==
  { [topics |-> [technology |-> [interest_score |-> 99]]],
    [topics |-> [technology |-> [subtopics |-> [artificial_intelligence |-> 150]]]],
    [reading_patterns |-> [max_articles_per_category |-> 5]],
    [authors |-> [alice |-> [score |-> -20]]] }

\* The articles feedback is given on (the fields processFeedback reads).
FeedbackArticles ==
  { [id |-> "a1", category |-> "technology",
     tags |-> <<"artificial_intelligence">>, author |-> "alice"],
    [id |-> "a2", category |-> "world",
     tags |-> <<"climate", "artificial_intelligence">>, author |-> ""] }

FeedbackTypes == {"upvote", "downvote"}

VARIABLES
  file,             \* the persisted preferences document
  heap,             \* the preferences objects allocated so far: reference -> value
  userPreferences,  \* the module-level cache: a reference, or Null
  pc,               \* each call's position
  op,               \* each call's operation and arguments
  preferences,      \* processFeedback's local: the reference load returned
  data,             \* saveUserPreferences' local: the document being written
  issued            \* how many calls have been issued

prefVars == <<file, heap, userPreferences, pc, op, preferences, data, issued>>

\* isObject(item), decided on the key the item is stored under: by the
\* UserPreferences type the values under these keys are objects, and every
\* other value is a number or an array.
ObjectKeys ==
  {"topics", "authors", "reading_patterns", "subtopics", "content_preferences",
   "technology", "science", "alice", "bob"}

isObject(key) == key \in ObjectKeys

\* A merge of the top-level keys only, as { ...target, ...source } makes it.
shallowMerge(target, source) ==
  [key \in DOMAIN target \cup DOMAIN source |->
     IF key \in DOMAIN source THEN source[key] ELSE target[key]]

RECURSIVE deepMerge(_, _)
deepMerge(target, source) ==
  [key \in DOMAIN target \cup DOMAIN source |->
     IF key \in DOMAIN source
       THEN IF key \in DOMAIN target /\ isObject(key)
              THEN deepMerge(target[key], source[key])
              ELSE source[key]
       ELSE target[key]]

\* A clamp that lost its upper bound.
ClampLowerOnly(x) == Max(0, x)

\* Math.max(0, Math.min(1, x)).
Clamp01(x) == Max(0, Min(100, x))

\* A JavaScript number used as a condition.
Truthy(n) == n # 0

AdjustmentOf(feedback) == IF feedback = "upvote" THEN Adjustment ELSE -Adjustment

\* processFeedback, "Update topic preferences".
AdjustTopic(P, article, adj) ==
  IF article.category # "" /\ article.category \in DOMAIN P.topics
    THEN [P EXCEPT !.topics[article.category].interest_score = Clamp01(@ + adj)]
    ELSE P

\* The condition of the inner loop of "Update subtopic preferences".
HasSubtopic(T, tag) ==
  /\ "subtopics" \in DOMAIN T
  /\ tag \in DOMAIN T.subtopics
  /\ Truthy(T.subtopics[tag])

AdjustTag(P, tag, adj) ==
  [P EXCEPT !.topics =
     [t \in DOMAIN P.topics |->
        IF HasSubtopic(P.topics[t], tag)
          THEN [P.topics[t] EXCEPT !.subtopics[tag] = Clamp01(@ + adj)]
          ELSE P.topics[t]]]

RECURSIVE AdjustSubtopics(_, _, _)
AdjustSubtopics(P, tags, adj) ==
  IF tags = <<>> THEN P
  ELSE AdjustSubtopics(AdjustTag(P, Head(tags), adj), Tail(tags), adj)

\* processFeedback, "Update author preferences".
AdjustAuthor(P, article, adj) ==
  IF article.author = "" THEN P
  ELSE LET authors == IF "authors" \in DOMAIN P THEN P.authors ELSE <<>>
           entry == IF article.author \in DOMAIN authors
                      THEN authors[article.author] ELSE [score |-> 50]
           updated == [entry EXCEPT !.score = Clamp01(@ + adj)]
       IN [k \in DOMAIN P \cup {"authors"} |->
             IF k = "authors"
               THEN [a \in DOMAIN authors \cup {article.author} |->
                       IF a = article.author THEN updated ELSE authors[a]]
               ELSE P[k]]

\* The in-place changes processFeedback makes to the object load returned.
Adjusted(P, article, feedback) ==
  LET adj == AdjustmentOf(feedback)
  IN AdjustAuthor(AdjustSubtopics(AdjustTopic(P, article, adj), article.tags, adj),
                  article, adj)

PrefInit ==
  /\ file \in InitDocuments
  /\ heap = <<>>
  /\ userPreferences = Null
  /\ pc = [p \in Calls |-> "idle"]
  /\ op = [p \in Calls |-> [name |-> "none"]]
  /\ preferences = [p \in Calls |-> Null]
  /\ data = [p \in Calls |-> <<>>]
  /\ issued = 0

\* A promise continuation is queued: the event loop runs it before it takes
\* the completion of any file operation.
MicrotaskPending == \E q \in Calls : pc[q] = "pf_resume"

\* The source object of call p's merge: update()'s argument.
Source(h, p) ==
  IF op[p].name = "update" THEN op[p].partial ELSE h[preferences[p]]

\* updateUserPreferences from its first line to its first await, for call p,
\* on the heap h and the cache c, merging src.
updateUserPreferences(p, h, c, src) ==
  IF c = Null
    THEN /\ pc' = [pc EXCEPT ![p] = "upd_reading"]
         /\ heap' = h
         /\ userPreferences' = c
         /\ data' = data
    ELSE LET merged == deepMerge(h[c], src)
         IN /\ heap' = (MergeObj(p) :> merged) @@ h
            /\ userPreferences' = MergeObj(p)
            /\ data' = [data EXCEPT ![p] = merged]
            /\ pc' = [pc EXCEPT ![p] = "writing"]

\* update(partial): a caller issues updateUserPreferences.
CallUpdate(p) ==
  \E partial \in Partials :
    /\ pc[p] = "idle" /\ p = issued + 1
    /\ issued' = p
    /\ op' = [op EXCEPT ![p] = [name |-> "update", partial |-> partial]]
    /\ updateUserPreferences(p, heap, userPreferences, partial)
    /\ UNCHANGED <<file, preferences>>

\* applyFeedback: a caller issues processFeedback, which runs to the await of
\* loadUserPreferences.
processFeedback(p, article, feedback) ==
  /\ pc[p] = "idle" /\ p = issued + 1
  /\ issued' = p
  /\ op' = [op EXCEPT ![p] =
              [name |-> "feedback", article |-> article, feedback |-> feedback]]
  /\ IF userPreferences # Null
       THEN /\ preferences' = [preferences EXCEPT ![p] = userPreferences]
            /\ pc' = [pc EXCEPT ![p] = "pf_resume"]
       ELSE /\ preferences' = preferences
            /\ pc' = [pc EXCEPT ![p] = "pf_reading"]
  /\ UNCHANGED <<file, heap, userPreferences, data>>

CallProcessFeedback(p) ==
  \E article \in FeedbackArticles, feedback \in FeedbackTypes :
    processFeedback(p, article, feedback)

\* processFeedback after loadUserPreferences returned the cached object: the
\* adjustments, then updateUserPreferences up to its first await.
ResumeProcessFeedback(p) ==
  /\ pc[p] = "pf_resume"
  /\ LET ref == preferences[p]
         h1 == [heap EXCEPT ![ref] = Adjusted(@, op[p].article, op[p].feedback)]
     IN updateUserPreferences(p, h1, userPreferences, h1[ref])
  /\ UNCHANGED <<file, op, preferences, issued>>

\* fs.readFile of loadUserPreferences completes for call p, and the promise
\* continuations it releases run.
ReadDone(p) ==
  \E ok \in BOOLEAN :
    /\ pc[p] \in {"pf_reading", "upd_reading"}
    /\ ~MicrotaskPending
    /\ IF ~ok
         THEN /\ pc' = [pc EXCEPT ![p] = "raised"]
              /\ UNCHANGED <<heap, userPreferences, preferences, data>>
         ELSE LET h1 == (LoadObj(p) :> file) @@ heap
                  c1 == LoadObj(p)
              IN IF pc[p] = "pf_reading"
                   THEN LET h2 == [h1 EXCEPT ![c1] =
                                     Adjusted(@, op[p].article, op[p].feedback)]
                        IN /\ preferences' = [preferences EXCEPT ![p] = c1]
                           /\ updateUserPreferences(p, h2, c1, h2[c1])
                   ELSE /\ preferences' = preferences
                        /\ updateUserPreferences(p, h1, c1, Source(h1, p))
    /\ UNCHANGED <<file, op, issued>>

\* fs.writeFile of saveUserPreferences completes for call p.
WriteDone(p) ==
  \E ok \in BOOLEAN :
    /\ pc[p] = "writing"
    /\ ~MicrotaskPending
    /\ IF ok
         THEN /\ file' = data[p]
              /\ pc' = [pc EXCEPT ![p] = "returned"]
         ELSE /\ file' = file
              /\ pc' = [pc EXCEPT ![p] = "raised"]
    /\ UNCHANGED <<heap, userPreferences, op, preferences, data, issued>>

(***************************************************************************)
(* PREFERENCE STORE: getUserPreferences and setPreferencesFilePath         *)
(***************************************************************************)

VARIABLES
  got,          \* what the getUserPreferences call of the behaviour did
  allocatedAtReset   \* the objects that existed when the cache was last reset

storeVars == <<got, allocatedAtReset>>

StoreInit ==
  /\ got = [status |-> "none"]
  /\ allocatedAtReset = {}

\* A getUserPreferences that does not look whether the cache is set.
getUnchecked(h, c) == [status |-> "returned", value |-> c]

\* getUserPreferences, on the heap h and the cache c.
getUserPreferences(h, c) ==
  IF c = Null
    THEN [status |-> "raised", error |-> "User preferences have not been loaded yet."]
    ELSE [status |-> "returned", value |-> c]

\* A caller calls getUserPreferences (once in a behaviour, in any state).
CallGet ==
  /\ got.status = "none"
  /\ got' = getUserPreferences(heap, userPreferences)
  /\ UNCHANGED <<prefVars, allocatedAtReset>>

\* setPreferencesFilePath(filePath), with the path of the one preferences
\* file of the model: the cache is reset.
SetPreferencesFilePath ==
  /\ userPreferences # Null
  /\ userPreferences' = Null
  /\ allocatedAtReset' = DOMAIN heap
  /\ UNCHANGED <<file, heap, pc, op, preferences, data, issued, got>>

(***************************************************************************)
(* TEXT                                                                    *)
(*                                                                         *)
(* A string of the program is a TLA+ string; Text gives its characters, on *)
(* which toLowerCase, includes, length and the regular expressions of the  *)
(* code are computed.                                                      *)
(***************************************************************************)

Chars ==
  ("ai" :> <<"a", "i">>)
  @@ ("software" :> <<"s", "o", "f", "t", "w", "a", "r", "e">>)
  @@ ("research" :> <<"r", "e", "s", "e", "a", "r", "c", "h">>)
  @@ ("technology" :> <<"t", "e", "c", "h", "n", "o", "l", "o", "g", "y">>)
  @@ ("science" :> <<"s", "c", "i", "e", "n", "c", "e">>)
  @@ ("business" :> <<"b", "u", "s", "i", "n", "e", "s", "s">>)
  @@ ("world" :> <<"w", "o", "r", "l", "d">>)
  @@ ("general" :> <<"g", "e", "n", "e", "r", "a", "l">>)
  @@ ("breaking" :> <<"b", "r", "e", "a", "k", "i", "n", "g">>)
  @@ ("urgent" :> <<"u", "r", "g", "e", "n", "t">>)
  @@ ("developing" :> <<"d", "e", "v", "e", "l", "o", "p", "i", "n", "g">>)
  @@ ("update" :> <<"u", "p", "d", "a", "t", "e">>)
  @@ ("exclusive" :> <<"e", "x", "c", "l", "u", "s", "i", "v", "e">>)
  @@ ("major" :> <<"m", "a", "j", "o", "r">>)
  @@ ("significant" :> <<"s", "i", "g", "n", "i", "f", "i", "c", "a", "n", "t">>)
  @@ ("important" :> <<"i", "m", "p", "o", "r", "t", "a", "n", "t">>)
  @@ ("critical" :> <<"c", "r", "i", "t", "i", "c", "a", "l">>)
  @@ ("emergency" :> <<"e", "m", "e", "r", "g", "e", "n", "c", "y">>)
  @@ ("reuters" :> <<"r", "e", "u", "t", "e", "r", "s">>)
  @@ ("ap" :> <<"a", "p">>)
  @@ ("bbc" :> <<"b", "b", "c">>)
  @@ ("npr" :> <<"n", "p", "r">>)
  @@ ("pbs" :> <<"p", "b", "s">>)
  @@ ("wsj" :> <<"w", "s", "j">>)
  @@ ("ft" :> <<"f", "t">>)
  @@ ("economist" :> <<"e", "c", "o", "n", "o", "m", "i", "s", "t">>)
  @@ ("cnn" :> <<"c", "n", "n">>)
  @@ ("nytimes" :> <<"n", "y", "t", "i", "m", "e", "s">>)
  @@ ("washingtonpost" :> <<"w", "a", "s", "h", "i", "n", "g", "t", "o", "n", "p", "o",
         "s", "t">>)
  @@ ("guardian" :> <<"g", "u", "a", "r", "d", "i", "a", "n">>)
  @@ ("bloomberg" :> <<"b", "l", "o", "o", "m", "b", "e", "r", "g">>)
  @@ ("axios" :> <<"a", "x", "i", "o", "s">>)
  @@ (".edu" :> <<".", "e", "d", "u">>)
  @@ (".gov" :> <<".", "g", "o", "v">>)
  @@ ("alice" :> <<"a", "l", "i", "c", "e">>)
  @@ ("bob" :> <<"b", "o", "b">>)
  @@ ("Breaking: major AI software update" :> <<"B", "r", "e", "a", "k", "i", "n", "g",
         ":", " ", "m", "a", "j", "o", "r", " ", "A", "I", " ", "s", "o", "f", "t", "w",
         "a", "r", "e", " ", "u", "p", "d", "a", "t", "e">>)
  @@ ("Researchers announce a significant release of developer tooling that changes how engineers build and ship products" :>
       <<"R", "e", "s", "e", "a", "r", "c", "h", "e", "r", "s", " ", "a", "n", "n", "o",
         "u", "n", "c", "e", " ", "a", " ", "s", "i", "g", "n", "i", "f", "i", "c", "a",
         "n", "t", " ", "r", "e", "l", "e", "a", "s", "e", " ", "o", "f", " ", "d", "e",
         "v", "e", "l", "o", "p", "e", "r", " ", "t", "o", "o", "l", "i", "n", "g", " ",
         "t", "h", "a", "t", " ", "c", "h", "a", "n", "g", "e", "s", " ", "h", "o", "w",
         " ", "e", "n", "g", "i", "n", "e", "e", "r", "s", " ", "b", "u", "i", "l", "d",
         " ", "a", "n", "d", " ", "s", "h", "i", "p", " ", "p", "r", "o", "d", "u", "c",
         "t", "s">>)
  @@ ("chips" :> <<"c", "h", "i", "p", "s">>)
  @@ ("cloud" :> <<"c", "l", "o", "u", "d">>)
  @@ ("Reuters" :> <<"R", "e", "u", "t", "e", "r", "s">>)
  @@ ("AI chips update" :> <<"A", "I", " ", "c", "h", "i", "p", "s", " ", "u", "p", "d",
         "a", "t", "e">>)
  @@ ("techblog" :> <<"t", "e", "c", "h", "b", "l", "o", "g">>)
  @@ ("TechBlog" :> <<"T", "e", "c", "h", "B", "l", "o", "g">>)
  @@ ("Software release notes" :> <<"S", "o", "f", "t", "w", "a", "r", "e", " ", "r", "e",
         "l", "e", "a", "s", "e", " ", "n", "o", "t", "e", "s">>)
  @@ ("release" :> <<"r", "e", "l", "e", "a", "s", "e">>)
  @@ ("devweekly" :> <<"d", "e", "v", "w", "e", "e", "k", "l", "y">>)
  @@ ("Dev Weekly" :> <<"D", "e", "v", " ", "W", "e", "e", "k", "l", "y">>)
  @@ ("Markets close higher as investors weigh earnings" :>
       <<"M", "a", "r", "k", "e", "t", "s", " ", "c", "l", "o", "s", "e", " ", "h", "i",
         "g", "h", "e", "r", " ", "a", "s", " ", "i", "n", "v", "e", "s", "t", "o", "r",
         "s", " ", "w", "e", "i", "g", "h", " ", "e", "a", "r", "n", "i", "n", "g", "s">>)
  @@ ("markets" :> <<"m", "a", "r", "k", "e", "t", "s">>)
  @@ ("stocks" :> <<"s", "t", "o", "c", "k", "s">>)
  @@ ("Bloomberg" :> <<"B", "l", "o", "o", "m", "b", "e", "r", "g">>)
  @@ ("Shops report quarterly results for this season" :> <<"S", "h", "o", "p", "s", " ",
         "r", "e", "p", "o", "r", "t", " ", "q", "u", "a", "r", "t", "e", "r", "l", "y",
         " ", "r", "e", "s", "u", "l", "t", "s", " ", "f", "o", "r", " ", "t", "h", "i",
         "s", " ", "s", "e", "a", "s", "o", "n">>)
  @@ ("shops" :> <<"s", "h", "o", "p", "s">>)
  @@ ("CNN" :> <<"C", "N", "N">>)
  @@ ("Local news" :> <<"L", "o", "c", "a", "l", " ", "n", "e", "w", "s">>)
  @@ ("dailypost" :> <<"d", "a", "i", "l", "y", "p", "o", "s", "t">>)
  @@ ("Daily Post" :> <<"D", "a", "i", "l", "y", " ", "P", "o", "s", "t">>)
  @@ ("AI News" :> <<"A", "I", " ", "N", "e", "w", "s">>)
  @@ ("ai news!" :> <<"a", "i", " ", "n", "e", "w", "s", "!">>)
  @@ ("AI  news " :> <<"A", "I", " ", " ", "n", "e", "w", "s", " ">>)
  @@ ("Other story" :> <<"O", "t", "h", "e", "r", " ", "s", "t", "o", "r", "y">>)
  @@ ("Global markets rally as central banks signal rate cuts ahead" :>
       <<"G", "l", "o", "b", "a", "l", " ", "m", "a", "r", "k", "e", "t", "s", " ", "r",
         "a", "l", "l", "y", " ", "a", "s", " ", "c", "e", "n", "t", "r", "a", "l", " ",
         "b", "a", "n", "k", "s", " ", "s", "i", "g", "n", "a", "l", " ", "r", "a", "t",
         "e", " ", "c", "u", "t", "s", " ", "a", "h", "e", "a", "d">>)
  @@ ("Global markets rally as central banks signal rate cuts, say analysts" :>
       <<"G", "l", "o", "b", "a", "l", " ", "m", "a", "r", "k", "e", "t", "s", " ", "r",
         "a", "l", "l", "y", " ", "a", "s", " ", "c", "e", "n", "t", "r", "a", "l", " ",
         "b", "a", "n", "k", "s", " ", "s", "i", "g", "n", "a", "l", " ", "r", "a", "t",
         "e", " ", "c", "u", "t", "s", ",", " ", "s", "a", "y", " ", "a", "n", "a", "l",
         "y", "s", "t", "s">>)
  @@ ("atlantic" :> <<"a", "t", "l", "a", "n", "t", "i", "c">>)

Text(s) == IF s = "" THEN <<>> ELSE Chars[s]

UpperCase ==
  <<"A", "B", "C", "D", "E", "F", "G", "H", "I", "J", "K", "L", "M",
    "N", "O", "P", "Q", "R", "S", "T", "U", "V", "W", "X", "Y", "Z">>
LowerCase ==
  <<"a", "b", "c", "d", "e", "f", "g", "h", "i", "j", "k", "l", "m",
    "n", "o", "p", "q", "r", "s", "t", "u", "v", "w", "x", "y", "z">>

LowerChar(c) ==
  IF \E i \in DOMAIN UpperCase : UpperCase[i] = c
    THEN LowerCase[CHOOSE i \in DOMAIN UpperCase : UpperCase[i] = c]
    ELSE c

\* String.prototype.toLowerCase.
toLowerCase(cs) ==
  CHOOSE lowered \in {[i \in DOMAIN text |-> LowerChar(text[i])] : text \in {cs}} : TRUE

\* String.prototype.includes.
includes(hay, needle) ==
  \E text \in {hay}, searched \in {needle} :
    \E i \in 0..(Len(text) - Len(searched)) :
      SubSeq(text, i + 1, i + Len(searched)) = searched

\* Array.prototype.join(' ') of the texts of a list of strings.
RECURSIVE joinSpace(_)
joinSpace(strs) ==
  IF strs = <<>> THEN <<>>
  ELSE IF Len(strs) = 1 THEN Text(strs[1])
  ELSE Text(strs[1]) \o <<" ">> \o joinSpace(Tail(strs))

\* String.prototype.trim() !== ''.
NonBlank(cs) == \E i \in DOMAIN cs : cs[i] # " "

(***************************************************************************)
(* ARTICLES                                                                *)
(***************************************************************************)

\* Date.now() of a run, in minutes.
Now == 6000

NewArticle(id, title, excerpt, author, age, sourceId, sourceName, category, tags, readTime) ==
  [id |-> id, title |-> title, excerpt |-> excerpt, author |-> author,
   publishedAt |-> Now - age, source |-> [id |-> sourceId, name |-> sourceName],
   category |-> category, tags |-> tags, readTime |-> readTime]

\* The candidate articles of the model, by id.
Catalogue ==
  [n1 |-> NewArticle("n1", "Breaking: major AI software update",
            "Researchers announce a significant release of developer tooling that changes how engineers build and ship products",
            "alice", 30, "reuters", "Reuters", "technology",
            <<"ai", "software", "chips", "cloud">>, 5),
   n2 |-> NewArticle("n2", "AI chips update", "", "", 300, "techblog", "TechBlog",
            "technology", <<"ai">>, 0),
   n3 |-> NewArticle("n3", "Software release notes", "", "", 600, "devweekly",
            "Dev Weekly", "technology", <<"software", "release">>, 0),
   n4 |-> NewArticle("n4", "Markets close higher as investors weigh earnings", "",
            "bob", 1800, "bloomberg", "Bloomberg", "business",
            <<"markets", "stocks">>, 5),
   n5 |-> NewArticle("n5", "Shops report quarterly results for this season", "",
            "bob", 2400, "cnn", "CNN", "business", <<"shops">>, 5),
   n6 |-> NewArticle("n6", "Local news", "", "", 3000, "dailypost", "Daily Post",
            "world", <<>>, 0),
   n7 |-> NewArticle("n7", "Markets close higher as investors weigh earnings", "",
            "bob", 1800, "bloomberg", "Bloomberg", "world",
            <<"markets", "stocks">>, 5),
   n8 |-> NewArticle("n8", "Local news", "", "", 3000, "dailypost", "Daily Post",
            "science", <<"research">>, 0)]

ArticleIds == DOMAIN Catalogue

\* (Date.now() - publishedAt) in minutes; hoursOld < h is MinutesOld < 60 * h.
MinutesOld(article) == Now - article.publishedAt

(***************************************************************************)
(* HEURISTIC STRATEGY (FreeRuleBasedProvider)                              *)
(*                                                                         *)
(* Article scores are held in hundredths of a point (100 points is 10000). *)
(***************************************************************************)

Point == 100

\* One keyword's contribution in calculateTopicRelevance.
KeywordRelevance(article, content, topicPrefs, keyword) ==
  LET kw == toLowerCase(Text(keyword))
  IN IF includes(content, kw)
       THEN topicPrefs.interest_score * 10
            + (IF includes(toLowerCase(Text(article.title)), kw) THEN 5 * Point ELSE 0)
            + (IF \E i \in DOMAIN article.tags :
                    includes(toLowerCase(Text(article.tags[i])), kw)
                 THEN 3 * Point ELSE 0)
       ELSE 0

RECURSIVE KeywordsRelevance(_, _, _, _)
KeywordsRelevance(article, content, topicPrefs, keywords) ==
  IF keywords = <<>> THEN 0
  ELSE KeywordRelevance(article, content, topicPrefs, Head(keywords))
       + KeywordsRelevance(article, content, topicPrefs, Tail(keywords))

TopicRelevance(article, content, topic, topicPrefs) ==
  KeywordsRelevance(article, content, topicPrefs, topicPrefs.keywords)
  + (IF article.category = topic \/ \E i \in DOMAIN article.tags : article.tags[i] = topic
       THEN topicPrefs.interest_score * 15 ELSE 0)

SetMax(S) == CHOOSE x \in S : \A y \in S : y <= x

calculateTopicRelevance(article, prefs) ==
  LET content == toLowerCase(Text(article.title) \o <<" ">> \o Text(article.excerpt)
                             \o <<" ">> \o joinSpace(article.tags) \o <<" ">>
                             \o Text(article.category))
      maxRelevance ==
        SetMax({0} \cup {TopicRelevance(article, content, t, prefs.topics[t]) :
                           t \in DOMAIN prefs.topics})
  IN Min(maxRelevance, 40 * Point)

highCredibilitySources ==
  <<"reuters", "ap", "bbc", "npr", "pbs", "wsj", "ft", "economist">>
mediumCredibilitySources ==
  <<"cnn", "nytimes", "washingtonpost", "guardian", "bloomberg", "axios">>

SourceMatches(article, sources) ==
  \E i \in DOMAIN sources :
    \/ includes(toLowerCase(Text(article.source.id)), Text(sources[i]))
    \/ includes(toLowerCase(Text(article.source.name)), Text(sources[i]))

calculateSourceCredibility(article) ==
  IF SourceMatches(article, highCredibilitySources) THEN 15 * Point
  ELSE IF SourceMatches(article, mediumCredibilitySources) THEN 10 * Point
  ELSE IF \/ includes(Text(article.source.name), Text(".edu"))
          \/ includes(Text(article.source.name), Text(".gov")) THEN 12 * Point
  ELSE 5 * Point

calculateContentQuality(article) ==
  (IF Len(Text(article.title)) >= 30 /\ Len(Text(article.title)) <= 100
     THEN 5 * Point ELSE 0)
  + (IF Len(Text(article.excerpt)) >= 100 /\ Len(Text(article.excerpt)) <= 300
       THEN 5 * Point ELSE 0)
  + (IF Len(article.tags) >= 2 THEN 3 * Point ELSE 0)
  + (IF NonBlank(Text(article.author)) THEN 2 * Point ELSE 0)
  + (IF article.readTime >= 2 /\ article.readTime <= 10 THEN 5 * Point ELSE 0)

trendingKeywords ==
  <<"breaking", "urgent", "developing", "update", "exclusive",
    "major", "significant", "important", "critical", "emergency">>

calculateTrendingBonus(article) ==
  LET content == toLowerCase(Text(article.title) \o <<" ">> \o Text(article.excerpt))
      hits == Cardinality({i \in DOMAIN trendingKeywords :
                             includes(content, Text(trendingKeywords[i]))})
      recent == IF MinutesOld(article) < 120 THEN 5 * Point
                ELSE IF MinutesOld(article) < 360 THEN 2 * Point ELSE 0
  IN Min(hits * 2 * Point + recent, 10 * Point)

calculateFreshnessScore(article) ==
  IF MinutesOld(article) < 60 THEN 10 * Point
  ELSE IF MinutesOld(article) < 180 THEN 8 * Point
  ELSE IF MinutesOld(article) < 360 THEN 6 * Point
  ELSE IF MinutesOld(article) < 720 THEN 4 * Point
  ELSE IF MinutesOld(article) < 1440 THEN 2 * Point
  ELSE 0

calculateDiversityScore(article) == IF Len(article.tags) > 3 THEN 2 * Point ELSE 0

\* scoreArticle: the article (by id) with its selectionScore and the
\* placeholder section.
scoreArticle(article, prefs) ==
  LET score == calculateTopicRelevance(article, prefs)
               + calculateSourceCredibility(article)
               + calculateContentQuality(article)
               + calculateTrendingBonus(article)
               + calculateFreshnessScore(article)
               + calculateDiversityScore(article)
  IN [id |-> article.id, selectionScore |-> Min(score, 100 * Point),
      targetSection |-> "general"]

\* getQualityThreshold: 25 points when diversity_vs_focus > 0.7, else 20.
getQualityThreshold(prefs) ==
  IF prefs.reading_patterns.diversity_vs_focus > 70 THEN 25 * Point ELSE 20 * Point

\* Array.prototype.slice(0, n).
slice(seq, n) ==
  IF n >= 0 THEN SubSeq(seq, 1, Min(n, Len(seq)))
  ELSE SubSeq(seq, 1, Max(0, Len(seq) + n))

\* Array.prototype.sort((a, b) => b.selectionScore - a.selectionScore): a
\* stable sort, descending by score.
RECURSIVE InsertByScore(_, _)
InsertByScore(sorted, x) ==
  IF sorted = <<>> THEN <<x>>
  ELSE IF Head(sorted).selectionScore >= x.selectionScore
         THEN <<Head(sorted)>> \o InsertByScore(Tail(sorted), x)
         ELSE <<x>> \o sorted

RECURSIVE SortInto(_, _)
SortInto(sorted, rest) ==
  IF rest = <<>> THEN sorted
  ELSE SortInto(InsertByScore(sorted, Head(rest)), Tail(rest))

sortByScore(seq) == SortInto(<<>>, seq)

\* article.category || 'general'
GroupCategory(scored) ==
  IF Catalogue[scored.id].category = "" THEN "general"
  ELSE Catalogue[scored.id].category

\* The keys of categoryGroups, in insertion order.
RECURSIVE GroupKeys(_, _)
GroupKeys(articles, keys) ==
  IF articles = <<>> THEN keys
  ELSE LET c == GroupCategory(Head(articles))
       IN GroupKeys(Tail(articles),
                    IF \E i \in DOMAIN keys : keys[i] = c THEN keys ELSE Append(keys, c))

\* A diversification that forgets to limit a group.
UnlimitedGroup(group, maxPerCategory) == sortByScore(group)

\* One group of ensureCategoryDiversity: sorted by score, then limited.
LimitedGroup(group, maxPerCategory) == slice(sortByScore(group), maxPerCategory)

RECURSIVE FlattenGroups(_, _, _)
FlattenGroups(articles, keys, maxPerCategory) ==
  IF keys = <<>> THEN <<>>
  ELSE LET InGroup(a) == GroupCategory(a) = Head(keys)
       IN LimitedGroup(SelectSeq(articles, InGroup), maxPerCategory)
          \o FlattenGroups(articles, Tail(keys), maxPerCategory)

ensureCategoryDiversity(articles, prefs) ==
  FlattenGroups(articles, GroupKeys(articles, <<>>),
                prefs.reading_patterns.max_articles_per_category)

recencyBoost(article) ==
  IF MinutesOld(article) < 60 THEN 5 * Point
  ELSE IF MinutesOld(article) < 180 THEN 3 * Point
  ELSE IF MinutesOld(article) < 360 THEN 1 * Point
  ELSE 0

applyRecencyBoost(articles) ==
  [i \in DOMAIN articles |->
     [articles[i] EXCEPT !.selectionScore = @ + recencyBoost(Catalogue[articles[i].id])]]

SectionCategories == {"technology", "business", "science"}

\* A section assignment that does not look at the rank of an article.
assignWithoutRank(articles, prefs) ==
  LET sorted == sortByScore(articles)
  IN [i \in DOMAIN sorted |->
        [sorted[i] EXCEPT !.targetSection =
           IF sorted[i].selectionScore > 60 * Point THEN "highlights"
           ELSE IF Catalogue[sorted[i].id].category \in SectionCategories
                  THEN Catalogue[sorted[i].id].category
                  ELSE "general"]]

\* A section assignment that hands the articles back lowest score first.
assignLowestFirst(articles, prefs) ==
  LET sorted == sortByScore(articles)
  IN [i \in DOMAIN sorted |->
        [sorted[Len(sorted) + 1 - i] EXCEPT !.targetSection = "general"]]

assignTargetSections(articles, prefs) ==
  LET sorted == sortByScore(articles)
  IN [i \in DOMAIN sorted |->
        [sorted[i] EXCEPT !.targetSection =
           IF i - 1 < 3 /\ sorted[i].selectionScore > 60 * Point THEN "highlights"
           ELSE IF Catalogue[sorted[i].id].category \in SectionCategories
                  THEN Catalogue[sorted[i].id].category
                  ELSE "general"]]

\* FreeRuleBasedProvider.curate, steps 1 to 5: the final selection.
finalSelection(articles, prefs, maxArticles) ==
  LET scoredArticles == [i \in DOMAIN articles |-> scoreArticle(Catalogue[articles[i]], prefs)]
      AboveThreshold(a) == a.selectionScore >= getQualityThreshold(prefs)
      qualityFiltered == SelectSeq(scoredArticles, AboveThreshold)
      diversified == ensureCategoryDiversity(qualityFiltered, prefs)
      recentlyBoosted == applyRecencyBoost(diversified)
  IN slice(sortByScore(recentlyBoosted), maxArticles)

\* FreeRuleBasedProvider.curate: the articles of the CurationResult.
FreeSelection(articles, prefs, maxArticles) ==
  LET selection == finalSelection(articles, prefs, maxArticles)
  IN assignTargetSections(selection, prefs)

FreeCurationResult(articles, prefs, maxArticles) ==
  [status |-> "returned",
   articles |-> FreeSelection(articles, prefs, maxArticles),
   totalProcessed |-> Len(articles),
   curationMethod |-> "Rule-based algorithm with trend analysis"]

\* The longest candidate list and the largest maxArticles of the model.
MaxCandidates == 3
MaxLimit == 3

Injective(seq) == \A i, j \in DOMAIN seq : seq[i] = seq[j] => i = j

CandidateLists ==
  {list \in UNION {[1..n -> ArticleIds] : n \in 0..MaxCandidates} : Injective(list)}

\* The preferences curation runs with.
CurationPrefs ==
  {[Document(90, 50) EXCEPT !.reading_patterns =
      [max_articles_per_category |-> m, diversity_vs_focus |-> d]] :
     m \in {1, 2}, d \in {50, 80}}

VARIABLES
  freeCall,    \* the arguments of the last FreeRuleBasedProvider.curate
  freeResult   \* what it returned

freeVars == <<freeCall, freeResult>>

\* The calls of the model: curate is a function of its arguments, which the
\* initial state draws.
FreeCalls ==
  [articles : CandidateLists, prefs : CurationPrefs, maxArticles : 0..MaxLimit]

FreeInit ==
  /\ freeCall \in FreeCalls
  /\ freeResult = [status |-> "none"]

\* The heuristic strategy at rest, for the specifications of the other parts.
FreeQuiet ==
  /\ freeCall = [articles |-> <<>>, prefs |-> Document(90, 50), maxArticles |-> 0]
  /\ freeResult = [status |-> "none"]

FreeCurate ==
  /\ freeResult.status = "none"
  /\ freeResult' = FreeCurationResult(freeCall.articles, freeCall.prefs, freeCall.maxArticles)
  /\ UNCHANGED freeCall

(***************************************************************************)
(* DEDUPLICATOR (RSSAggregator)                                            *)
(*                                                                         *)
(* Publish times are in minutes.  A list of articles is the list of their  *)
(* ids.                                                                    *)
(***************************************************************************)

\* getTime() of an Invalid Date: new Date(item.pubDate) of a pubDate that
\* does not parse.
NaN == -1

FeedItem(id, title, publishedAt) ==
  [id |-> id, title |-> title, publishedAt |-> publishedAt]

\* The articles the feeds of the model deliver, by id.
Fetched ==
  [f1 |-> FeedItem("f1", "AI News", 100),
   f2 |-> FeedItem("f2", "ai news!", 200),
   f3 |-> FeedItem("f3", "AI  news ", 200),
   f4 |-> FeedItem("f4", "Other story", NaN),
   f5 |-> FeedItem("f5",
            "Global markets rally as central banks signal rate cuts ahead", 300),
   f6 |-> FeedItem("f6",
            "Global markets rally as central banks signal rate cuts, say analysts", 50)]

FetchedIds == DOMAIN Fetched

Digits == <<"0", "1", "2", "3", "4", "5", "6", "7", "8", "9">>

\* The class \w.
IsWord(c) ==
  \/ c = "_"
  \/ \E i \in DOMAIN LowerCase : c = LowerCase[i] \/ c = UpperCase[i]
  \/ \E i \in DOMAIN Digits : c = Digits[i]

\* The class \s.
IsSpace(c) == c = " "

\* replace(/[^\w\s]/g, '')
stripPunctuation(cs) == SelectSeq(cs, LAMBDA c : IsWord(c) \/ IsSpace(c))

\* replace(/\s+/g, ' '): of each run of whitespace its first character stays,
\* as a space.
collapseSpaces(cs) ==
  LET Starts(text) ==
        SelectSeq([i \in DOMAIN text |-> i],
                  LAMBDA i : ~(IsSpace(text[i]) /\ i > 1 /\ IsSpace(text[i - 1])))
      Collapsed(text) ==
        [n \in DOMAIN Starts(text) |->
           IF IsSpace(text[Starts(text)[n]]) THEN " " ELSE text[Starts(text)[n]]]
  IN  CHOOSE result \in {Collapsed(text) : text \in {cs}} : TRUE

\* String.prototype.trim.
trim(cs) ==
  LET Trimmed(text, inked) ==
        IF inked = {} THEN <<>>
        ELSE SubSeq(text, CHOOSE i \in inked : \A j \in inked : i <= j,
                          CHOOSE i \in inked : \A j \in inked : i >= j)
  IN  CHOOSE result \in
        {Trimmed(text, {i \in DOMAIN text : ~IsSpace(text[i])}) : text \in {cs}} : TRUE

\* String.prototype.substring(from, to).
substring(cs, from, to) == SubSeq(cs, from + 1, Min(to, Len(cs)))

getDeduplicationKey(article) ==
  LET normalizedTitle ==
        trim(collapseSpaces(stripPunctuation(toLowerCase(Text(article.title)))))
  IN  substring(normalizedTitle, 0, 50)

\* The comparator of the sort, b.publishedAt.getTime() - a.publishedAt.getTime();
\* it is NaN when either date is invalid, which the sort takes as +0.
newestFirst(a, b) ==
  IF Fetched[a].publishedAt = NaN \/ Fetched[b].publishedAt = NaN THEN 0
  ELSE Fetched[b].publishedAt - Fetched[a].publishedAt

\* Whether the comparator orders the elements of the list consistently: the
\* elements it takes as equal form classes.
ConsistentComparator(list) ==
  \A i, j, k \in DOMAIN list :
    newestFirst(list[i], list[j]) = 0 /\ newestFirst(list[j], list[k]) = 0
      => newestFirst(list[i], list[k]) = 0

\* The stable sort of a list under the comparator.
RECURSIVE InsertByDate(_, _)
InsertByDate(id, sorted) ==
  IF sorted = <<>> THEN <<id>>
  ELSE IF newestFirst(Head(sorted), id) <= 0
    THEN <<Head(sorted)>> \o InsertByDate(id, Tail(sorted))
    ELSE <<id>> \o sorted

RECURSIVE SortByDateInto(_, _)
SortByDateInto(list, sorted) ==
  IF list = <<>> THEN sorted
  ELSE SortByDateInto(Tail(list), InsertByDate(Head(list), sorted))

Orderings(list) ==
  {p \in [DOMAIN list -> {list[i] : i \in DOMAIN list}] :
     \A i, j \in DOMAIN p : p[i] = p[j] => i = j}

\* Array.prototype.sort with the comparator: a stable sort, and an order the
\* engine chooses when the comparator is not consistent.
sortNewestFirst(list) ==
  IF ConsistentComparator(list) THEN {SortByDateInto(list, <<>>)}
  ELSE Orderings(list)

\* The loop of deduplicateArticles: the first article of each key.
RECURSIVE firstPerKey(_, _)
firstPerKey(list, seen) ==
  IF list = <<>> THEN <<>>
  ELSE LET key == getDeduplicationKey(Fetched[Head(list)])
       IN  IF key \in seen THEN firstPerKey(Tail(list), seen)
           ELSE <<Head(list)>> \o firstPerKey(Tail(list), seen \cup {key})

\* The longest fetched list of the model.
MaxFetched == 3

FetchedLists ==
  {list \in UNION {[1..n -> FetchedIds] : n \in 0..MaxFetched} :
     \A i, j \in DOMAIN list : list[i] = list[j] => i = j}

VARIABLES
  allArticles,      \* the array fetchFromSources passes to deduplicateArticles
  deduplicated,     \* the array deduplicateArticles returned
  rededuplicated,   \* what deduplicateArticles returned for its own output
  dedupPc           \* "fetched", "deduplicated", "again"

dedupVars == <<allArticles, deduplicated, rededuplicated, dedupPc>>

DedupInit ==
  /\ allArticles \in FetchedLists
  /\ deduplicated = <<>>
  /\ rededuplicated = <<>>
  /\ dedupPc = "fetched"

\* The deduplicator at rest, for the specifications of the other parts.
DedupQuiet ==
  /\ allArticles = <<>>
  /\ deduplicated = <<>>
  /\ rededuplicated = <<>>
  /\ dedupPc = "fetched"

\* deduplicateArticles(allArticles): the sort is in place.
Deduplicate ==
  /\ dedupPc = "fetched"
  /\ \E sorted \in sortNewestFirst(allArticles) :
       /\ allArticles' = sorted
       /\ deduplicated' = firstPerKey(sorted, {})
  /\ dedupPc' = "deduplicated"
  /\ UNCHANGED rededuplicated

\* deduplicateArticles(deduplicated).
DeduplicateAgain ==
  /\ dedupPc = "deduplicated"
  /\ \E sorted \in sortNewestFirst(deduplicated) :
       /\ deduplicated' = sorted
       /\ rededuplicated' = firstPerKey(sorted, {})
  /\ dedupPc' = "again"
  /\ UNCHANGED allArticles

(***************************************************************************)
(* PAID STRATEGIES (OpenAIProvider, ClaudeProvider)                        *)
(*                                                                         *)
(* Costs and budgets are held in units of 10^-8 dollar, in which the price *)
(* of a token is a whole number.                                           *)
(***************************************************************************)

\* The number of curate() invocations a behaviour issues on the strategy.
MaxCurates == 2

Curates == 1..MaxCurates

\* An argument or a field that is not there.
Undefined == -2

Tiers == {"openai", "claude"}

\* usageTracker.monthlyBudget of a new instance: 10.00 and 15.00 dollars.
DefaultBudget(tier) == IF tier = "openai" THEN 1000000000 ELSE 1500000000

\* The budgets a strategy is constructed with: none, 0, 0.0054 and 0.01 dollar.
ConfiguredBudgets == {Undefined, 0, 540000, 1000000}

\* if (monthlyBudget)
TruthyNumber(n) == n # Undefined /\ n # NaN /\ n # 0

\* The constructor: the usage tracker of a new instance.
NewUsageTracker(tier, monthlyBudget) ==
  [requestsThisMonth |-> 0,
   estimatedCost |-> 0,
   monthlyBudget |-> IF TruthyNumber(monthlyBudget) THEN monthlyBudget
                     ELSE DefaultBudget(tier)]

\* a < b on numbers; false when either is NaN.
LessThan(a, b) == a # NaN /\ b # NaN /\ a < b

\* a + b on numbers; NaN when either is NaN.
Plus(a, b) == IF a = NaN \/ b = NaN THEN NaN ELSE a + b

WithinOrAtBudget(tracker) == LessThan(tracker.estimatedCost, tracker.monthlyBudget + 1)

isWithinBudget(tracker) == LessThan(tracker.estimatedCost, tracker.monthlyBudget)

\* The price of a token: 0.00015 and 0.0006 dollar per thousand for OpenAI,
\* 0.00025 and 0.00125 for Claude.
InputPrice(tier) == IF tier = "openai" THEN 15 ELSE 25
OutputPrice(tier) == IF tier = "openai" THEN 60 ELSE 125

\* The usage a response reports (prompt_tokens / completion_tokens, or
\* input_tokens / output_tokens): none, or the two counts, each of which
\* may be missing.
Usages ==
  {[reported |-> FALSE, input |-> 0, output |-> 0],
   [reported |-> TRUE, input |-> 20000, output |-> 4000],
   [reported |-> TRUE, input |-> 300000, output |-> 4000],
   [reported |-> TRUE, input |-> Undefined, output |-> 4000]}

\* undefined / 1000 is NaN.
TokenCost(tokens, price) == IF tokens = Undefined THEN NaN ELSE tokens * price

trackUsage(tier, tracker, usage) ==
  IF usage.reported
    THEN LET inputCost == TokenCost(usage.input, InputPrice(tier))
             outputCost == TokenCost(usage.output, OutputPrice(tier))
             totalCost == Plus(inputCost, outputCost)
         IN [tracker EXCEPT !.requestsThisMonth = @ + 1,
                            !.estimatedCost = Plus(@, totalCost)]
    ELSE tracker

\* Array.prototype.sort((a, b) => key(b) - key(a)), a stable sort, descending,
\* of a list whose elements have the keys given: the positions in sorted order.
sortDescending(keys) ==
  LET Before(j, i) == keys[j] > keys[i] \/ (keys[j] = keys[i] /\ j < i)
      Rank(i) == Cardinality({j \in DOMAIN keys : Before(j, i)}) + 1
  IN [r \in DOMAIN keys |-> CHOOSE i \in DOMAIN keys : Rank(i) = r]

\* (article.title + ' ' + (article.excerpt || '')).toLowerCase()
TitleAndExcerpt(article) ==
  toLowerCase(Text(article.title) \o <<" ">> \o Text(article.excerpt))

\* prefs.keywords.some(keyword => content.includes(keyword.toLowerCase()))
HasKeyword(content, topicPrefs) ==
  \E i \in DOMAIN topicPrefs.keywords :
    includes(content, toLowerCase(Text(topicPrefs.keywords[i])))

\* article.excerpt && article.excerpt.length >= n
ExcerptAtLeast(article, n) == article.excerpt # "" /\ Len(Text(article.excerpt)) >= n

\* OpenAIProvider.preFilterArticles, on a list of article ids.
\* The recency windows of the pre-filters, in minutes, and the most articles
\* each pre-filter keeps for the external call.
OpenAIWindow == 1440
ClaudeWindow == 2880
OpenAICap == 50
ClaudeCap == 40

preFilterArticles(articles, prefs) ==
  LET Kept(id) ==
        /\ MinutesOld(Catalogue[id]) <= OpenAIWindow
        /\ Len(Text(Catalogue[id].title)) >= 10
        /\ ExcerptAtLeast(Catalogue[id], 50)
      kept == SelectSeq(articles, Kept)
      order == sortDescending([i \in DOMAIN kept |-> Catalogue[kept[i]].publishedAt])
  IN slice([r \in DOMAIN kept |-> kept[order[r]]], OpenAICap)

\* The sum of the values of a function.
RECURSIVE SumOver(_)
SumOver(f) ==
  IF DOMAIN f = {} THEN 0
  ELSE LET x == CHOOSE y \in DOMAIN f : TRUE
       IN f[x] + SumOver([y \in DOMAIN f \ {x} |-> f[y]])

highQualitySources == <<"reuters", "ap", "bbc", "wsj", "ft", "npr">>

\* sources.some(s => article.source.name.toLowerCase().includes(s))
SourceNameMatches(article, sources) ==
  \E i \in DOMAIN sources :
    includes(toLowerCase(Text(article.source.name)), Text(sources[i]))

\* The score of intelligentPreFilter.
PreFilterScore(article, prefs) ==
  LET content == TitleAndExcerpt(article)
      TopicScore(t) ==
        IF prefs.topics[t].interest_score < 30 THEN 0
        ELSE IF HasKeyword(content, prefs.topics[t])
               THEN prefs.topics[t].interest_score * Point
               ELSE 0
  IN SumOver([t \in DOMAIN prefs.topics |-> TopicScore(t)])
     + (IF SourceNameMatches(article, highQualitySources) THEN 20 * Point ELSE 0)
     + (IF MinutesOld(article) < 6 * 60 THEN 15 * Point
        ELSE IF MinutesOld(article) < 12 * 60 THEN 10 * Point
        ELSE IF MinutesOld(article) < 24 * 60 THEN 5 * Point
        ELSE 0)

\* ClaudeProvider.intelligentPreFilter, on a list of article ids.
intelligentPreFilter(articles, prefs) ==
  LET Kept(id) ==
        /\ MinutesOld(Catalogue[id]) <= ClaudeWindow
        /\ Len(Text(Catalogue[id].title)) >= 15
        /\ ExcerptAtLeast(Catalogue[id], 80)
      kept == SelectSeq(articles, Kept)
      order == sortDescending([i \in DOMAIN kept |-> PreFilterScore(Catalogue[kept[i]], prefs)])
  IN slice([r \in DOMAIN kept |-> kept[order[r]]], ClaudeCap)

PreFiltered(tier, articles, prefs) ==
  IF tier = "openai" THEN preFilterArticles(articles, prefs)
  ELSE intelligentPreFilter(articles, prefs)

\* What the external service answers: it throws (an error, a timeout), or a
\* response whose shape is not the expected one (no choices, no content
\* block), or a response with a text.
\* The texts: one without a JSON array, one whose array does not parse, and
\* lists of selections (id, selection_score, target_section).
Selection(id, score, section) ==
  [id |-> id, selection_score |-> score, target_section |-> section]

SelectionLists ==
  {<<>>,
   <<Selection("n1", 95 * Point, "highlights")>>,
   <<Selection("n1", 95 * Point, "highlights"), Selection("n1", 90 * Point, "technology"),
     Selection("n2", 80 * Point, "technology"), Selection("n1", 0, "general"),
     Selection("n1", 70 * Point, "")>>}

Texts ==
  {[json |-> "none", selections |-> <<>>], [json |-> "invalid", selections |-> <<>>]}
  \cup {[json |-> "array", selections |-> list] : list \in SelectionLists}

\* parseOpenAIResponse / parseClaudeResponse.
parseResponse(text, articles) ==
  IF text.json # "array" THEN <<>>
  ELSE LET Accepted(selection) ==
             /\ \E i \in DOMAIN articles : articles[i] = selection.id
             /\ Truthy(selection.selection_score)
             /\ selection.target_section # ""
           accepted == SelectSeq(text.selections, Accepted)
       IN [i \in DOMAIN accepted |->
             [id |-> accepted[i].id,
              selectionScore |-> accepted[i].selection_score,
              targetSection |-> accepted[i].target_section]]

\* Math.random() * 50 + 30 lies in [30, 80); the values the model draws.
RandomScores == {30 * Point, 80 * Point - 1}

\* The articles OpenAIProvider.fallbackCuration keeps.
KeywordMatched(articles, prefs) ==
  LET Matches(id) ==
        \E t \in DOMAIN prefs.topics :
          HasKeyword(TitleAndExcerpt(Catalogue[id]), prefs.topics[t])
  IN SelectSeq(articles, Matches)

\* The draws of Math.random() of one fallbackCuration: one for each article
\* scored (none in ClaudeProvider).
RandomDraws(tier, articles, prefs) ==
  IF tier = "openai"
    THEN [{KeywordMatched(articles, prefs)[i] :
             i \in DOMAIN KeywordMatched(articles, prefs)} -> RandomScores]
    ELSE {<<>>}

\* OpenAIProvider.fallbackCuration.
OpenAIFallback(articles, prefs, maxArticles, randoms) ==
  LET matched == KeywordMatched(articles, prefs)
      scored == [i \in DOMAIN matched |->
                   [id |-> matched[i],
                    selectionScore |-> randoms[matched[i]],
                    targetSection |->
                      IF Catalogue[matched[i]].category = "technology"
                        THEN "technology" ELSE "general"]]
  IN [status |-> "returned",
      articles |-> slice(sortByScore(scored), maxArticles),
      totalProcessed |-> Len(articles),
      curationMethod |-> "Fallback rule-based (OpenAI unavailable)"]

premiumSources == <<"reuters", "wsj", "ft", "economist", "atlantic">>

\* The score of ClaudeProvider.fallbackCuration, before Math.min(score, 100).
ClaudeFallbackScore(article, prefs) ==
  LET content == TitleAndExcerpt(article)
      title == toLowerCase(Text(article.title))
      KeywordScore(topicPrefs, keyword) ==
        IF includes(content, toLowerCase(Text(keyword)))
          THEN topicPrefs.interest_score * 20
               + (IF includes(title, toLowerCase(Text(keyword))) THEN 10 * Point ELSE 0)
          ELSE 0
      TopicScore(t) ==
        LET Keyword(i) == KeywordScore(prefs.topics[t], prefs.topics[t].keywords[i])
        IN SumOver([i \in DOMAIN prefs.topics[t].keywords |-> Keyword(i)])
  IN SumOver([t \in DOMAIN prefs.topics |-> TopicScore(t)])
     + (IF Truthy(article.readTime) /\ article.readTime >= 3 /\ article.readTime <= 8
          THEN 15 * Point ELSE 0)
     + (IF article.excerpt # "" /\ Len(Text(article.excerpt)) > 200 THEN 10 * Point ELSE 0)
     + (IF article.author # "" THEN 5 * Point ELSE 0)
     + (IF SourceNameMatches(article, premiumSources) THEN 20 * Point ELSE 0)

determineSection(article, score) ==
  IF score > 80 * Point THEN "highlights"
  ELSE IF article.category = "technology" THEN "technology"
  ELSE IF article.category = "business" THEN "business"
  ELSE IF article.category = "science" THEN "science"
  ELSE "general"

\* ClaudeProvider.fallbackCuration.
ClaudeFallback(articles, prefs, maxArticles) ==
  LET scored == [i \in DOMAIN articles |->
                   LET score == ClaudeFallbackScore(Catalogue[articles[i]], prefs)
                   IN [id |-> articles[i],
                       selectionScore |-> Min(score, 100 * Point),
                       targetSection |-> determineSection(Catalogue[articles[i]], score)]]
  IN [status |-> "returned",
      articles |-> slice(sortByScore(scored), maxArticles),
      totalProcessed |-> Len(articles),
      curationMethod |-> "Advanced fallback curation (Claude unavailable)"]

fallbackCuration(tier, articles, prefs, maxArticles, randoms) ==
  IF tier = "openai" THEN OpenAIFallback(articles, prefs, maxArticles, randoms)
  ELSE ClaudeFallback(articles, prefs, maxArticles)

\* A curate that lets the failure of the external call through.
Rethrow(tier, articles, prefs, maxArticles, randoms) ==
  [status |-> "raised", articles |-> <<>>, totalProcessed |-> 0, curationMethod |-> ""]

\* The catch clause of curate.
CatchClause(tier, articles, prefs, maxArticles, randoms) ==
  fallbackCuration(tier, articles, prefs, maxArticles, randoms)

\* What curate returns at the end of its try block.
ReasonedResult(tier, text, articles, prefs) ==
  [status |-> "returned",
   articles |-> parseResponse(text, PreFiltered(tier, articles, prefs)),
   totalProcessed |-> Len(articles),
   curationMethod |->
     IF tier = "openai" THEN "OpenAI GPT-4o Mini with intelligent reasoning"
     ELSE "Claude 3 Haiku with advanced reasoning and personalization"]

\* The candidate lists and the arguments curate is invoked with.
PaidLists == {<<>>, <<"n2", "n1">>, <<"n4", "n3", "n1">>}

PaidCalls ==
  [articles : PaidLists, prefs : {Document(90, 50)}, maxArticles : {1, 2}]

\* What the external service does with a call: it throws (an error or a
\* timeout), or it answers; an answer reports a usage and has a text, or has
\* no choice / content block to read the text from.
Answers ==
  {[kind |-> "throws", usage |-> u, text |-> [json |-> "none", selections |-> <<>>]] :
     u \in {[reported |-> FALSE, input |-> 0, output |-> 0]}}
  \cup {[kind |-> "malformed", usage |-> u, text |-> [json |-> "none", selections |-> <<>>]] :
          u \in Usages}
  \cup {[kind |-> "text", usage |-> u, text |-> t] : u \in Usages, t \in Texts}

VARIABLES
  paidTier,        \* "openai" or "claude": the class of the instance
  paidBudget,      \* the monthlyBudget argument of the constructor
  usageTracker,    \* this.usageTracker
  paidCall,        \* the arguments of the curate invocations
  curatePc,        \* of each invocation: "idle", "awaiting", "returned", "raised"
  externalCalls,   \* the number of calls issued to the external service
  paidResult,      \* what the last invocation to end has returned
  paidPath         \* how the invocations that ended came to their result, in order

paidVars ==
  <<paidTier, paidBudget, usageTracker, paidCall, curatePc, externalCalls,
    paidResult, paidPath>>

PaidInit ==
  /\ paidTier \in Tiers
  /\ paidBudget \in ConfiguredBudgets
  /\ usageTracker = NewUsageTracker(paidTier, paidBudget)
  /\ paidCall \in PaidCalls
  /\ curatePc = [p \in Curates |-> "idle"]
  /\ externalCalls = 0
  /\ paidResult = [status |-> "none"]
  /\ paidPath = <<>>

\* A paid strategy at rest, for the specifications of the other parts.
PaidQuiet ==
  /\ PaidInit
  /\ paidTier = "openai"
  /\ paidBudget = Undefined
  /\ paidCall = [articles |-> <<>>, prefs |-> Document(90, 50), maxArticles |-> 1]

\* An invocation ends with a result.
EndCurate(p, result, path) ==
  /\ paidResult' = result
  /\ curatePc' = [curatePc EXCEPT ![p] = result.status]
  /\ paidPath' = Append(paidPath, path)

\* A curate that sends its request to the external service twice.
CurateTwice(p) ==
  /\ curatePc[p] = "idle"
  /\ \A q \in Curates : q < p => curatePc[q] # "idle"
  /\ IF ~isWithinBudget(usageTracker)
       THEN /\ \E randoms \in RandomDraws(paidTier, paidCall.articles, paidCall.prefs) :
                 EndCurate(p, fallbackCuration(paidTier, paidCall.articles, paidCall.prefs,
                                               paidCall.maxArticles, randoms),
                           "budget")
            /\ UNCHANGED externalCalls
       ELSE /\ externalCalls' = externalCalls + 2
            /\ curatePc' = [curatePc EXCEPT ![p] = "awaiting"]
            /\ UNCHANGED <<paidResult, paidPath>>
  /\ UNCHANGED <<paidTier, paidBudget, usageTracker, paidCall>>

\* curate up to its await: the budget check, the pre-filter and the prompt,
\* and the call of the external service.
Curate(p) ==
  /\ curatePc[p] = "idle"
  /\ \A q \in Curates : q < p => curatePc[q] # "idle"
  /\ IF ~isWithinBudget(usageTracker)
       THEN /\ \E randoms \in RandomDraws(paidTier, paidCall.articles, paidCall.prefs) :
                 EndCurate(p, fallbackCuration(paidTier, paidCall.articles, paidCall.prefs,
                                               paidCall.maxArticles, randoms),
                           "budget")
            /\ UNCHANGED externalCalls
       ELSE /\ externalCalls' = externalCalls + 1
            /\ curatePc' = [curatePc EXCEPT ![p] = "awaiting"]
            /\ UNCHANGED <<paidResult, paidPath>>
  /\ UNCHANGED <<paidTier, paidBudget, usageTracker, paidCall>>

\* curate from its await on: the external service has thrown or answered.
CurateResume(p) ==
  /\ curatePc[p] = "awaiting"
  /\ \E answer \in Answers :
       \/ /\ answer.kind = "throws"
          /\ \E randoms \in RandomDraws(paidTier, paidCall.articles, paidCall.prefs) :
               EndCurate(p, CatchClause(paidTier, paidCall.articles, paidCall.prefs,
                                        paidCall.maxArticles, randoms),
                         "threw")
          /\ UNCHANGED usageTracker
       \/ /\ answer.kind = "malformed"
          /\ usageTracker' = trackUsage(paidTier, usageTracker, answer.usage)
          /\ \E randoms \in RandomDraws(paidTier, paidCall.articles, paidCall.prefs) :
               EndCurate(p, CatchClause(paidTier, paidCall.articles, paidCall.prefs,
                                        paidCall.maxArticles, randoms),
                         "malformed")
       \/ /\ answer.kind = "text"
          /\ usageTracker' = trackUsage(paidTier, usageTracker, answer.usage)
          /\ EndCurate(p, ReasonedResult(paidTier, answer.text, paidCall.articles,
                                         paidCall.prefs),
                       answer.text.json)
  /\ UNCHANGED <<paidTier, paidBudget, paidCall, externalCalls>>

(***************************************************************************)
(* PROVIDER FACTORY (AIProviderFactory.createProvider)                     *)
(*                                                                         *)
(* A ProviderConfig is a record; an apiKey that is undefined is a missing  *)
(* field.  The constructors of the paid strategies build the client of the *)
(* vendor's SDK, which constructs or throws an Error.                      *)
(***************************************************************************)

MaxCreates == 2

\* The tier names a configuration carries; "gemini" is a name the factory
\* does not know.
TierNames == {"free", "openai", "claude", "gemini"}

FactoryBudgets == {Undefined, 540000}

ProviderConfigs ==
  [tier : TierNames, monthlyBudget : FactoryBudgets]
    \cup [tier : TierNames, monthlyBudget : FactoryBudgets, apiKey : {"", "sk-key"}]

SdkOutcomes == {"constructs", "throws"}

VARIABLES created

factoryVars == <<created>>

FactoryInit == created = <<>>

\* new FreeRuleBasedProvider()
FreeRuleBasedProvider == [name |-> "free"]

\* !config.apiKey is false.
HasApiKey(config) == "apiKey" \in DOMAIN config /\ config.apiKey # ""

\* new OpenAIProvider(apiKey, monthlyBudget), new ClaudeProvider(apiKey,
\* monthlyBudget).
NewPaidProvider(tier, monthlyBudget, sdk) ==
  IF sdk = "throws"
    THEN [status |-> "raised", error |-> [message |-> "client construction failed"]]
    ELSE [status |-> "returned",
          value |-> [name |-> tier, usageTracker |-> NewUsageTracker(tier, monthlyBudget)]]

\* The switch inside the try block.
switchTier(config, sdk) ==
  IF config.tier \in Tiers /\ HasApiKey(config)
    THEN NewPaidProvider(config.tier, config.monthlyBudget, sdk)
    ELSE [status |-> "returned", value |-> FreeRuleBasedProvider]

\* A factory without its catch clause.
propagateFailure(outcome) == outcome

\* The catch clause: it logs error.message and returns the free strategy.
catchFailure(outcome) ==
  IF outcome.status = "raised"
    THEN [status |-> "returned", value |-> FreeRuleBasedProvider]
    ELSE outcome

createProvider(config, sdk) == catchFailure(switchTier(config, sdk))

CreateProvider ==
  /\ Len(created) < MaxCreates
  /\ \E config \in ProviderConfigs, sdk \in SdkOutcomes :
       created' = Append(created, [config |-> config, sdk |-> sdk,
                                   result |-> createProvider(config, sdk)])

(***************************************************************************)
(* NEWSLETTER SCHEDULER (NewsletterScheduler.generateDailyNewsletter)      *)
(*                                                                         *)
(* A run aggregates the articles, hands them to the curation strategy with *)
(* a preferences object, and formats and publishes what comes back.  The   *)
(* model keeps, per run, what the run handed to the strategy.              *)
(***************************************************************************)

MaxRuns == 2

\* What contentAggregator.aggregateContent() may resolve to.
RawArticleLists == {<<>>, <<"n2", "n1">>}

\* The object literal generateDailyNewsletter builds, scores in hundredths.
SchedulerPreferences ==
  [topics |->
     [technology |-> [interest_score |-> 90,
                      keywords |-> <<"AI", "software", "programming", "tech",
                                     "development", "innovation">>,
                      subtopics |-> ("artificial-intelligence" :> 95) @@
                                    ("software-development" :> 85) @@
                                    ("cybersecurity" :> 80)],
      business |-> [interest_score |-> 80,
                    keywords |-> <<"startup", "finance", "economy", "market",
                                   "investment", "leadership">>,
                    subtopics |-> [startups |-> 90, finance |-> 75, management |-> 70]],
      science |-> [interest_score |-> 70,
                   keywords |-> <<"research", "study", "discovery",
                                  "breakthrough", "innovation">>,
                   subtopics |-> [research |-> 80, medical |-> 70, space |-> 60]]],
   content_preferences |->
     [article_length |-> [short |-> 30, medium |-> 50, long |-> 20],
      content_types |-> [analysis |-> 90, news |-> 80, tutorial |-> 70, opinion |-> 60]],
   reading_patterns |->
     [preferred_categories_order |->
        <<"highlights", "technology", "business", "science", "general">>,
      max_articles_per_category |-> 4,
      diversity_vs_focus |-> 70]]

VARIABLES runs

schedulerVars == <<runs>>

SchedulerInit == runs = <<>>

\* One run, up to the call of the strategy: no articles ends the run in its
\* catch clause, before the strategy is called.
GenerateDailyNewsletter ==
  /\ Len(runs) < MaxRuns
  /\ \E rawArticles \in RawArticleLists :
       runs' = Append(runs,
                 IF Len(rawArticles) = 0
                   THEN [status |-> "failed"]
                   ELSE [status |-> "curated",
                         articles |-> rawArticles,
                         preferences |-> SchedulerPreferences])

(***************************************************************************)
(* SECTION ASSIGNMENT (FreeRuleBasedProvider.assignTargetSections)         *)
(*                                                                         *)
(* assignTargetSections on the lists curate can hand it: ranked, highest   *)
(* score first.  The scores are drawn, since they depend on the            *)
(* preferences of the run.                                                 *)
(***************************************************************************)

MaxRanked == 4

\* One article of each of four categories.
SectionIds == {"n1", "n4", "n7", "n8"}

\* Scores around the bar of 60 points.
SectionScores == {59 * Point, 60 * Point, 61 * Point}

RankedLists ==
  {list \in UNION {[1..n -> [id : SectionIds, selectionScore : SectionScores,
                             targetSection : {"general"}]] : n \in 0..MaxRanked} :
     /\ \A i, j \in DOMAIN list : list[i].id = list[j].id => i = j
     /\ \A i \in DOMAIN list : i > 1 => list[i - 1].selectionScore >= list[i].selectionScore}

VARIABLES
  sectionCall,    \* the list handed to assignTargetSections
  sectionResult   \* what it returned

sectionVars == <<sectionCall, sectionResult>>

SectionInit ==
  /\ sectionCall \in RankedLists
  /\ sectionResult = [status |-> "none"]

SectionQuiet ==
  /\ sectionCall = <<>>
  /\ sectionResult = [status |-> "none"]

AssignSections ==
  /\ sectionResult.status = "none"
  /\ sectionResult' = [status |-> "returned",
                       articles |-> assignTargetSections(sectionCall, Document(90, 50))]
  /\ UNCHANGED sectionCall

(***************************************************************************)
(* FEEDBACK PROCESSOR (feedback-processor.ts, main)                        *)
(*                                                                         *)
(* One process: it reads the stored curated articles, looks the article up *)
(* and hands it to processFeedback as call 1 of the preference store.      *)
(***************************************************************************)

\* The curated articles stored in data/curated-articles.json.
CuratedArticles ==
  << [id |-> "a1", category |-> "technology",
      tags |-> <<"artificial_intelligence">>, author |-> "alice"],
     [id |-> "a2", category |-> "world",
      tags |-> <<"climate", "artificial_intelligence">>, author |-> ""] >>

\* process.argv[2] and process.argv[3]; "" is an argument that is missing.
ArgArticleIds == {"", "a1", "a2", "zz"}
ArgFeedbacks == {"", "upvote", "downvote", "like"}

VARIABLES
  procArgs,   \* the command line
  procPc,     \* "start", "reading", "awaiting", "exited"
  procExit,   \* the exit status; -1 while the process runs
  procLog     \* the logger calls of main: level and message

procVars == <<procArgs, procPc, procExit, procLog>>

ProcInit ==
  /\ procArgs \in [articleId : ArgArticleIds, feedback : ArgFeedbacks]
  /\ procPc = "start"
  /\ procExit = -1
  /\ procLog = <<>>

ProcQuiet ==
  /\ ProcInit
  /\ procArgs = [articleId |-> "a1", feedback |-> "upvote"]

\* logger.error(message); process.exit(1)
ExitWithError(message) ==
  /\ procLog' = Append(procLog, [level |-> "error", message |-> message])
  /\ procExit' = 1
  /\ procPc' = "exited"

\* articles.find(a => a.id === articleId): the position, 0 when undefined.
find(articles, articleId) ==
  IF \E i \in DOMAIN articles : articles[i].id = articleId
    THEN CHOOSE i \in DOMAIN articles :
           /\ articles[i].id = articleId
           /\ \A j \in 1..(i - 1) : articles[j].id # articleId
    ELSE 0

\* main up to its first await: the checks of the arguments.
ProcStart ==
  /\ procPc = "start"
  /\ IF procArgs.articleId = "" \/ procArgs.feedback = ""
       THEN ExitWithError("Usage: node feedback-processor.js <articleId> <upvote|downvote>")
       ELSE IF procArgs.feedback \notin {"upvote", "downvote"}
         THEN ExitWithError("Invalid feedback type.")
         ELSE /\ procPc' = "reading"
              /\ UNCHANGED <<procExit, procLog>>
  /\ UNCHANGED <<procArgs, prefVars>>

\* fs.readFile of the curated articles completes: the lookup, and the call
\* of processFeedback up to its first await.
ProcReadDone ==
  /\ procPc = "reading"
  /\ \E ok \in BOOLEAN :
       IF ~ok
         THEN /\ ExitWithError("Failed to process feedback:")
              /\ UNCHANGED prefVars
         ELSE LET found == find(CuratedArticles, procArgs.articleId)
              IN IF found = 0
                   THEN /\ ExitWithError("Article not found.")
                        /\ UNCHANGED prefVars
                   ELSE /\ processFeedback(1, CuratedArticles[found], procArgs.feedback)
                        /\ procPc' = "awaiting"
                        /\ UNCHANGED <<procExit, procLog>>
  /\ UNCHANGED procArgs

\* processFeedback has settled: main logs and ends, or its catch clause exits.
ProcFeedbackDone ==
  /\ procPc = "awaiting"
  /\ pc[1] \in {"returned", "raised"}
  /\ IF pc[1] = "returned"
       THEN /\ procLog' = Append(procLog, [level |-> "info", message |-> "Feedback processed"])
            /\ procExit' = 0
            /\ procPc' = "exited"
       ELSE ExitWithError("Failed to process feedback:")
  /\ UNCHANGED <<procArgs, prefVars>>

(***************************************************************************)
(* GISCUS FEEDBACK FETCHER (GiscusFeedbackFetcher)                         *)
(*                                                                         *)
(* fetchAndProcessFeedback over the curated articles.  The fetcher is the  *)
(* only caller of the preference store in its process and awaits every     *)
(* call, so the store is held as its two values: the persisted document    *)
(* and the cache.                                                          *)
(***************************************************************************)

\* The most '+1' and the most '-1' reactions a discussion has.
MaxReactions == 2

VARIABLES
  gFile,      \* the persisted preferences document
  gCache,     \* the cache: <<>> when empty, else <<the preferences>>
  gIndex,     \* the position of the article of the loop
  gPc,        \* "find", "list", "events", "event", "done"
  gUp,        \* approve events of the article still to process
  gDown,      \* reject events of the article still to process
  gEvent,     \* the feedback type of the processFeedback in flight
  gBefore,    \* <<the preferences when the events of the article began>>
  gLog        \* per article, in order: the counts and the events processed

giscusVars == <<gFile, gCache, gIndex, gPc, gUp, gDown, gEvent, gBefore, gLog>>

GiscusInit ==
  /\ gFile \in InitDocuments
  /\ gCache = <<>>
  /\ gIndex = 1
  /\ gPc = "find"
  /\ gUp = 0 /\ gDown = 0
  /\ gEvent = ""
  /\ gBefore = <<>>
  /\ gLog = <<>>

GiscusQuiet ==
  /\ GiscusInit
  /\ gFile = Document(50, 50)

\* What loadUserPreferences returns: the cache, or the document read.
Stored == IF gCache = <<>> THEN gFile ELSE gCache[1]

\* The loop goes on to the next article, or ends.
NextArticle ==
  /\ gIndex' = gIndex + 1
  /\ gPc' = IF gIndex < Len(CuratedArticles) THEN "find" ELSE "done"
  /\ gUp' = 0 /\ gDown' = 0 /\ gEvent' = ""

\* The catch clause of the loop: it logs and goes on.
CatchAndContinue(entry) ==
  /\ gLog' = Append(gLog, entry)
  /\ NextArticle

\* findDiscussionForArticle settles: a discussion, none, or an error.
FindDone ==
  /\ gPc = "find"
  /\ \E outcome \in {"found", "none", "throws"} :
       IF outcome = "found"
         THEN /\ gPc' = "list"
              /\ UNCHANGED <<gIndex, gUp, gDown, gEvent, gLog>>
         ELSE CatchAndContinue([article |-> gIndex, outcome |-> outcome,
                                up |-> 0, down |-> 0, events |-> <<>>])
  /\ UNCHANGED <<gFile, gCache, gBefore>>

\* reactions.listForIssue settles: the counts of '+1' and '-1', or an error.
ListDone ==
  /\ gPc = "list"
  /\ \/ /\ CatchAndContinue([article |-> gIndex, outcome |-> "throws",
                             up |-> 0, down |-> 0, events |-> <<>>])
        /\ UNCHANGED gBefore
     \/ \E upvotes, downvotes \in 0..MaxReactions :
          /\ gUp' = upvotes /\ gDown' = downvotes
          /\ gBefore' = <<Stored>>
          /\ gLog' = Append(gLog, [article |-> gIndex, outcome |-> "processing",
                                   up |-> upvotes, down |-> downvotes, events |-> <<>>])
          /\ gPc' = "events"
          /\ UNCHANGED <<gIndex, gEvent>>
  /\ UNCHANGED <<gFile, gCache>>

\* The two loops of processDiscussionFeedback: the next processFeedback is
\* called, or the article is done.
StartEvent ==
  /\ gPc = "events"
  /\ IF gUp > 0
       THEN /\ gEvent' = "upvote" /\ gPc' = "event"
            /\ UNCHANGED <<gIndex, gUp, gDown, gLog>>
       ELSE IF gDown > 0
         THEN /\ gEvent' = "downvote" /\ gPc' = "event"
              /\ UNCHANGED <<gIndex, gUp, gDown, gLog>>
         ELSE /\ gLog' = [gLog EXCEPT ![Len(gLog)].outcome = "processed"]
              /\ NextArticle
  /\ UNCHANGED <<gFile, gCache, gBefore>>

\* The processFeedback in flight settles: its read fails, its write fails, or
\* it returns.
EventDone ==
  /\ gPc = "event"
  /\ \E outcome \in {"ok", "read fails", "write fails"} :
       LET logged == [gLog EXCEPT ![Len(gLog)].events = Append(@, gEvent)]
       IN IF outcome = "read fails"
            THEN /\ gCache = <<>>
                 /\ gLog' = [gLog EXCEPT ![Len(gLog)].outcome = "throws"]
                 /\ NextArticle
                 /\ UNCHANGED <<gFile, gCache>>
            ELSE LET adjusted == Adjusted(Stored, CuratedArticles[gIndex], gEvent)
                     merged == deepMerge(adjusted, adjusted)
                 IN /\ gCache' = <<merged>>
                    /\ IF outcome = "ok"
                         THEN /\ gFile' = merged
                              /\ gLog' = logged
                              /\ gUp' = IF gEvent = "upvote" THEN gUp - 1 ELSE gUp
                              /\ gDown' = IF gEvent = "downvote" THEN gDown - 1 ELSE gDown
                              /\ gPc' = "events"
                              /\ UNCHANGED <<gIndex, gEvent>>
                         ELSE /\ gFile' = gFile
                              /\ gLog' = [gLog EXCEPT ![Len(gLog)].outcome = "throws"]
                              /\ NextArticle
  /\ UNCHANGED gBefore

(***************************************************************************)
(* SPECIFICATIONS                                                          *)
(***************************************************************************)

vars == <<prefVars, storeVars, freeVars, dedupVars, paidVars, factoryVars, schedulerVars, sectionVars, procVars, giscusVars>>

\* The preference store at rest, for the specifications of the other parts.
PrefQuiet == PrefInit /\ StoreInit /\ file = Document(50, 50)

PrefNext ==
  \E p \in Calls :
    \/ CallUpdate(p) /\ UNCHANGED <<storeVars, freeVars, dedupVars, paidVars, factoryVars, schedulerVars, sectionVars, procVars, giscusVars>>
    \/ CallProcessFeedback(p) /\ UNCHANGED <<storeVars, freeVars, dedupVars, paidVars, factoryVars, schedulerVars, sectionVars, procVars, giscusVars>>
    \/ ResumeProcessFeedback(p) /\ UNCHANGED <<storeVars, freeVars, dedupVars, paidVars, factoryVars, schedulerVars, sectionVars, procVars, giscusVars>>
    \/ ReadDone(p) /\ UNCHANGED <<storeVars, freeVars, dedupVars, paidVars, factoryVars, schedulerVars, sectionVars, procVars, giscusVars>>
    \/ WriteDone(p) /\ UNCHANGED <<storeVars, freeVars, dedupVars, paidVars, factoryVars, schedulerVars, sectionVars, procVars, giscusVars>>

PrefStart == PrefInit /\ StoreInit /\ FreeQuiet /\ DedupQuiet /\ PaidQuiet /\ FactoryInit /\ SchedulerInit /\ SectionQuiet /\ ProcQuiet /\ GiscusQuiet

PrefSpec == PrefStart /\ [][PrefNext]_vars

FreeNext == FreeCurate /\ UNCHANGED <<prefVars, storeVars, dedupVars, paidVars, factoryVars, schedulerVars, sectionVars, procVars, giscusVars>>

FreeStart == PrefQuiet /\ FreeInit /\ DedupQuiet /\ PaidQuiet /\ FactoryInit /\ SchedulerInit /\ SectionQuiet /\ ProcQuiet /\ GiscusQuiet

FreeSpec == FreeStart /\ [][FreeNext]_vars

DedupNext ==
  \/ Deduplicate /\ UNCHANGED <<prefVars, storeVars, freeVars, paidVars, factoryVars, schedulerVars, sectionVars, procVars, giscusVars>>
  \/ DeduplicateAgain /\ UNCHANGED <<prefVars, storeVars, freeVars, paidVars, factoryVars, schedulerVars, sectionVars, procVars, giscusVars>>

DedupStart == PrefQuiet /\ FreeQuiet /\ DedupInit /\ PaidQuiet /\ FactoryInit /\ SchedulerInit /\ SectionQuiet /\ ProcQuiet /\ GiscusQuiet

DedupSpec == DedupStart /\ [][DedupNext]_vars

PaidNext ==
  \E p \in Curates :
    \/ Curate(p) /\ UNCHANGED <<prefVars, storeVars, freeVars, dedupVars, factoryVars, schedulerVars, sectionVars, procVars, giscusVars>>
    \/ CurateResume(p) /\ UNCHANGED <<prefVars, storeVars, freeVars, dedupVars, factoryVars, schedulerVars, sectionVars, procVars, giscusVars>>

PaidStart == PrefQuiet /\ FreeQuiet /\ DedupQuiet /\ PaidInit /\ FactoryInit /\ SchedulerInit /\ SectionQuiet /\ ProcQuiet /\ GiscusQuiet

PaidSpec == PaidStart /\ [][PaidNext]_vars

\* The preference store with every operation of its module.
StoreNext ==
  \/ PrefNext
  \/ CallGet /\ UNCHANGED <<freeVars, dedupVars, paidVars, factoryVars, schedulerVars, sectionVars, procVars, giscusVars>>
  \/ SetPreferencesFilePath /\ UNCHANGED <<freeVars, dedupVars, paidVars, factoryVars, schedulerVars, sectionVars, procVars, giscusVars>>

StoreSpec == PrefStart /\ [][StoreNext]_vars

FactoryNext == CreateProvider /\ UNCHANGED <<prefVars, storeVars, freeVars, dedupVars, paidVars, schedulerVars, sectionVars, procVars, giscusVars>>

FactoryStart == PrefQuiet /\ FreeQuiet /\ DedupQuiet /\ PaidQuiet /\ FactoryInit /\ SchedulerInit /\ SectionQuiet /\ ProcQuiet /\ GiscusQuiet

FactorySpec == FactoryStart /\ [][FactoryNext]_vars

\* Feedback and newsletter runs in one process.
LoopNext ==
  \/ PrefNext
  \/ GenerateDailyNewsletter
       /\ UNCHANGED <<prefVars, storeVars, freeVars, dedupVars, paidVars, factoryVars, sectionVars, procVars, giscusVars>>

LoopSpec == PrefStart /\ [][LoopNext]_vars

SectionNext ==
  AssignSections
    /\ UNCHANGED <<prefVars, storeVars, freeVars, dedupVars, paidVars, factoryVars, schedulerVars, procVars, giscusVars>>

SectionStart ==
  PrefQuiet /\ FreeQuiet /\ DedupQuiet /\ PaidQuiet /\ FactoryInit /\ SchedulerInit /\ SectionInit /\ ProcQuiet
    /\ GiscusQuiet

SectionSpec == SectionStart /\ [][SectionNext]_vars

\* Everything but the preference store and the feedback processor.
othersUnchanged ==
  UNCHANGED <<storeVars, freeVars, dedupVars, paidVars, factoryVars, schedulerVars, sectionVars,
              giscusVars>>

ProcNext ==
  \/ ProcStart /\ othersUnchanged
  \/ ProcReadDone /\ othersUnchanged
  \/ ProcFeedbackDone /\ othersUnchanged
  \/ ReadDone(1) /\ UNCHANGED procVars /\ othersUnchanged
  \/ WriteDone(1) /\ UNCHANGED procVars /\ othersUnchanged

ProcessorStart ==
  PrefInit /\ StoreInit /\ FreeQuiet /\ DedupQuiet /\ PaidQuiet /\ FactoryInit
    /\ SchedulerInit /\ SectionQuiet /\ ProcInit /\ GiscusQuiet

ProcSpec == ProcessorStart /\ [][ProcNext]_vars

\* Everything but the feedback fetcher.
restUnchanged ==
  UNCHANGED <<prefVars, storeVars, freeVars, dedupVars, paidVars, factoryVars, schedulerVars,
              sectionVars, procVars>>

GiscusNext ==
  \/ FindDone /\ restUnchanged
  \/ ListDone /\ restUnchanged
  \/ StartEvent /\ restUnchanged
  \/ EventDone /\ restUnchanged

GiscusStart ==
  PrefQuiet /\ FreeQuiet /\ DedupQuiet /\ PaidQuiet /\ FactoryInit /\ SchedulerInit
    /\ SectionQuiet /\ ProcQuiet /\ GiscusInit

GiscusSpec == GiscusStart /\ [][GiscusNext]_vars

(***************************************************************************)
(* Claims about the preference store and the feedback adapter              *)
(***************************************************************************)

\* The value the cache refers to.
Cached == heap[userPreferences]

\* Every field the partial carries is in the document, with the partial's value.
RECURSIVE Contains(_, _)
Contains(doc, partial) ==
  \A key \in DOMAIN partial :
    /\ key \in DOMAIN doc
    /\ IF isObject(key) THEN Contains(doc[key], partial[key])
       ELSE doc[key] = partial[key]

AllUpdatesReturned ==
  \A p \in Calls : op[p].name = "update" /\ pc[p] = "returned"

\* C1: once every one of a set of concurrent update() calls has returned, the
\* cached preferences hold the fields of every call's partial (the partials of
\* the model write pairwise distinct fields, or are equal): no write is lost.
C1_NoLostUpdate ==
  AllUpdatesReturned =>
    \A p \in Calls : Contains(Cached, op[p].partial)

InUnit(x) == x >= 0 /\ x <= 100

ScoresInUnit(P) ==
  /\ \A t \in DOMAIN P.topics :
       /\ InUnit(P.topics[t].interest_score)
       /\ "subtopics" \in DOMAIN P.topics[t] =>
            \A tag \in DOMAIN P.topics[t].subtopics :
              InUnit(P.topics[t].subtopics[tag])
  /\ "authors" \in DOMAIN P =>
       \A a \in DOMAIN P.authors : InUnit(P.authors[a].score)

\* C2: after any sequence of update() calls, every score field of the cached
\* preferences lies in [0,1].
C2_ScoresClamped ==
  (userPreferences # Null /\ \A p \in Calls : op[p].name \in {"none", "update"})
    => ScoresInUnit(Cached)

\* The step of call p in which processFeedback makes its adjustments and
\* hands the object to updateUserPreferences.
AdjustStep(p) ==
  /\ pc[p] \in {"pf_resume", "pf_reading"}
  /\ pc'[p] \in {"writing", "upd_reading"}

\* The object loadUserPreferences returned to call p, before the adjustments
\* and after them.
Snapshot(p) == IF pc[p] = "pf_resume" THEN heap[preferences[p]] ELSE file
AdjustedObject(p) == heap'[preferences'[p]]

Expected(v, feedback) ==
  IF feedback = "upvote" THEN Min(100, v + 5) ELSE Max(0, v - 5)

\* C9: processFeedback on an article whose category names an existing topic
\* with interest_score s in [0,1] sets the score to min(1, s + 0.05) on an
\* upvote and to max(0, s - 0.05) on a downvote, in the object it adjusts and
\* in the cache; the result is in [0,1].
C9_TopicScoreStep ==
  [][\A p \in Calls :
       LET cat == op[p].article.category
           s == Snapshot(p).topics[cat].interest_score
           e == Expected(s, op[p].feedback)
       IN (AdjustStep(p) /\ cat \in DOMAIN Snapshot(p).topics /\ InUnit(s)) =>
            /\ AdjustedObject(p).topics[cat].interest_score = e
            /\ heap'[userPreferences'].topics[cat].interest_score = e
            /\ InUnit(e)]_vars

\* A returned upvote on a technology article has taken the topic's score to
\* the upper bound.
C9_Witness ==
  \E p \in Calls :
    /\ pc[p] = "returned" /\ op[p].name = "feedback"
    /\ op[p].feedback = "upvote" /\ op[p].article.category = "technology"
    /\ Cached.topics.technology.interest_score = 100

Range(seq) == {seq[i] : i \in DOMAIN seq}

\* C10: for every tag of the article and every topic whose subtopics map has
\* the tag as a key, with a current value v in [0,1] (the bounds included),
\* processFeedback changes the subtopic score to clamp(v + 0.05) on an upvote
\* and to clamp(v - 0.05) on a downvote.
C10_SubtopicScoreStep ==
  [][\A p \in Calls :
       AdjustStep(p) =>
         \A tag \in Range(op[p].article.tags) :
           \A t \in DOMAIN Snapshot(p).topics :
             LET T == Snapshot(p).topics[t]
             IN ("subtopics" \in DOMAIN T /\ tag \in DOMAIN T.subtopics
                   /\ InUnit(T.subtopics[tag])) =>
                  AdjustedObject(p).topics[t].subtopics[tag] =
                    Expected(T.subtopics[tag], op[p].feedback)]_vars

(***************************************************************************)
(* Claims about the heuristic strategy                                     *)
(***************************************************************************)

CountInCategory(articles, category) ==
  Cardinality({i \in DOMAIN articles : Catalogue[articles[i].id].category = category})

\* C6: the heuristic strategy's curate() returns at most maxArticles
\* articles, at most max_articles_per_category of any one category, and no
\* article whose score is below the active threshold (25 points when
\* diversity_vs_focus > 0.7, otherwise 20).
C6_SelectionLimits ==
  freeResult.status = "returned" =>
    LET selected == freeResult.articles
        patterns == freeCall.prefs.reading_patterns
    IN /\ Len(selected) <= freeCall.maxArticles
       /\ \A i \in DOMAIN selected :
            /\ CountInCategory(selected, Catalogue[selected[i].id].category)
                 <= patterns.max_articles_per_category
            /\ selected[i].selectionScore
                 >= (IF patterns.diversity_vs_focus > 70 THEN 2500 ELSE 2000)

\* Three technology candidates above the threshold, a cap of two per
\* category and room for three: two are returned.
C6_Witness ==
  /\ freeResult.status = "returned"
  /\ freeCall.articles = <<"n3", "n2", "n1">>
  /\ freeCall.prefs.reading_patterns.max_articles_per_category = 2
  /\ freeCall.maxArticles = 3
  /\ Len(freeResult.articles) = 2

\* C7: every article of the heuristic strategy's result has a selectionScore
\* within [0,100], the recency re-boost included.
C7_ScoreWithinBounds ==
  freeResult.status = "returned" =>
    \A i \in DOMAIN freeResult.articles :
      /\ freeResult.articles[i].selectionScore >= 0
      /\ freeResult.articles[i].selectionScore <= 10000

(***************************************************************************)
(* Claims about the deduplicator                                           *)
(***************************************************************************)

SameKey(a, b) == getDeduplicationKey(Fetched[a]) = getDeduplicationKey(Fetched[b])

Published(a) == Fetched[a].publishedAt

\* Of two passed articles of one key with valid, different publish times the
\* older one is not in the output.
OnlyNewerSurvives ==
  dedupPc # "fetched" =>
    \A a, b \in Range(allArticles) :
      SameKey(a, b) /\ Published(a) # NaN /\ Published(b) # NaN
        /\ Published(a) < Published(b)
        => a \notin Range(deduplicated)

\* C8: deduplicateArticles applied to its own output returns that output, and
\* of any two input articles that share a normalized-title key and have
\* different publish times only the more recently published one is in the
\* output.
C8_IdempotentNewestSurvives ==
  [][/\ OnlyNewerSurvives'
     /\ (dedupPc = "deduplicated" /\ dedupPc' = "again"
           => rededuplicated' = deduplicated)]_vars

(***************************************************************************)
(* Claims about the paid strategies                                        *)
(***************************************************************************)

\* estimatedCost has reached or exceeded the monthly budget.
BudgetReached ==
  /\ usageTracker.estimatedCost # NaN
  /\ usageTracker.estimatedCost >= usageTracker.monthlyBudget

\* C3: curate of a paid strategy never raises to its caller: whether the
\* external call throws or times out, the response is garbage or the budget
\* is exhausted, every invocation that ends returns a CurationResult holding
\* zero or more articles.
C3_CurateNeverRaises ==
  /\ \A p \in Curates : curatePc[p] # "raised"
  /\ paidResult.status \in {"none", "returned"}
  /\ paidResult.status = "returned" =>
        /\ Len(paidResult.articles) >= 0
        /\ paidResult.totalProcessed = Len(paidCall.articles)

\* An invocation has returned after a response it could not read, and a later
\* one after the budget was exhausted.
C3_Witness ==
  /\ \E i, j \in DOMAIN paidPath : paidPath[i] = "malformed" /\ paidPath[j] = "budget"
  /\ BudgetReached
  /\ \A p \in Curates : curatePc[p] = "returned"
  /\ paidResult.status = "returned"

\* C4: for a strategy constructed with a configured monthly budget B >= 0,
\* isWithinBudget() is true exactly when estimatedCost is strictly less
\* than B.
C4_WithinBudgetIffBelowConfigured ==
  paidBudget # Undefined =>
    (isWithinBudget(usageTracker) <=> LessThan(usageTracker.estimatedCost, paidBudget))

\* Invocation p starts in the step.
Invoked(p) == curatePc[p] = "idle" /\ curatePc'[p] # "idle"

\* C5: once estimatedCost has reached or exceeded the monthly budget,
\* isWithinBudget() is false and stays false, and every later curate
\* invocation returns through the fallback path without an external call.
C5_ExhaustedBudgetStays ==
  [][/\ BudgetReached => ~isWithinBudget(usageTracker)
     /\ ~isWithinBudget(usageTracker) =>
          /\ ~isWithinBudget(usageTracker')
          /\ externalCalls' = externalCalls
          /\ \A p \in Curates :
               Invoked(p) => /\ curatePc'[p] = "returned"
                             /\ paidPath' = Append(paidPath, "budget")
                             /\ paidResult'.curationMethod \in
                                  {"Fallback rule-based (OpenAI unavailable)",
                                   "Advanced fallback curation (Claude unavailable)"}]_vars

\* A budget of 0.01 dollar, one call estimated above it, and a later
\* invocation that returned through the fallback path.
C5_Witness ==
  /\ paidBudget = 1000000
  /\ BudgetReached
  /\ externalCalls = 1
  /\ paidPath # <<>> /\ paidPath[Len(paidPath)] = "budget"

\* How the invocation that ended last came to its result.
LastPath == IF paidPath = <<>> THEN "" ELSE paidPath[Len(paidPath)]

\* What fallbackCuration can return for the arguments of the invocations.
FallbackResults ==
  {fallbackCuration(paidTier, paidCall.articles, paidCall.prefs, paidCall.maxArticles,
                    randoms) :
     randoms \in RandomDraws(paidTier, paidCall.articles, paidCall.prefs)}

\* C12: when the text of the response holds no JSON array, or an array that
\* does not parse, curate returns the result of its fallback path: the
\* articles and the method label are those of fallbackCuration.
C12_NoListMeansFallback ==
  LastPath \in {"none", "invalid"} => paidResult \in FallbackResults

\* C16: when a paid strategy falls back because the budget is exhausted or the
\* external call failed, the articles it returns are those the heuristic
\* strategy selects for the same candidates, preferences and maxArticles, with
\* the same scores and sections.
C16_FallbackIsHeuristic ==
  LastPath \in {"budget", "threw"} =>
    paidResult.articles =
      FreeSelection(paidCall.articles, paidCall.prefs, paidCall.maxArticles)

\* An invocation ends in the step, on the path given.
EndsOn(paths) ==
  /\ Len(paidPath') = Len(paidPath) + 1
  /\ paidPath'[Len(paidPath')] \in paths

\* C17: requestsThisMonth and estimatedCost never decrease; requestsThisMonth
\* grows by exactly one on every curate whose external call returned, and
\* both counters are unchanged by a curate that takes the fallback path
\* because the budget is exhausted or the call failed.
C17_UsageCounters ==
  [][/\ usageTracker'.requestsThisMonth >= usageTracker.requestsThisMonth
     /\ ~LessThan(usageTracker'.estimatedCost, usageTracker.estimatedCost)
     /\ EndsOn({"malformed", "none", "invalid", "array"}) =>
          usageTracker'.requestsThisMonth = usageTracker.requestsThisMonth + 1
     /\ EndsOn({"budget", "threw"}) => usageTracker' = usageTracker]_vars

(***************************************************************************)
(* Further claims about the deduplicator                                   *)
(***************************************************************************)

\* What deduplicateArticles can return for a list.
DeduplicationsOf(list) == {firstPerKey(sorted, {}) : sorted \in sortNewestFirst(list)}

\* C18: for input lists that are permutations of each other
\* deduplicateArticles returns the same set of articles, duplicates of one
\* publish time included: what it returned for the list passed is what it
\* returns for every other order of that list.
C18_OrderIndependent ==
  dedupPc # "fetched" =>
    \A other \in Orderings(allArticles) :
      \A result \in DeduplicationsOf(other) :
        Range(result) = Range(deduplicated)

\* C19: deduplicateArticles has no side effect: after the call the list
\* passed to it holds the same elements in the same order as before.
C19_InputUntouched ==
  [][dedupPc = "fetched" /\ dedupPc' = "deduplicated" => allArticles' = allArticles]_vars

(***************************************************************************)
(* Further claims about the preference store                               *)
(***************************************************************************)

\* Calls have been issued, all of them update(), and all have returned.
UpdatesAtRest ==
  /\ issued >= 1
  /\ \A p \in 1..issued : op[p].name = "update" /\ pc[p] = "returned"

\* update() call p returns in the step.
UpdateReturns(p) == op[p].name = "update" /\ pc[p] # "returned" /\ pc'[p] = "returned"

\* C13: once every update() of a set of calls, sequential or concurrent, has
\* returned, the persisted document equals the cached preferences; and no
\* update() returns before the structure it produced has been written.
C13_PersistedEqualsCached ==
  [][/\ UpdatesAtRest' => file' = Cached'
     /\ \A p \in Calls : UpdateReturns(p) => file' = data[p]]_vars

\* A load has succeeded since the cache was last reset (or since the start):
\* JSON.parse has allocated an object since.
LoadedSinceReset == \E p \in Calls : LoadObj(p) \in DOMAIN heap \ allocatedAtReset

\* getUserPreferences is called in the step.
GetStep == got.status = "none" /\ got'.status # "none"

\* C14: getUserPreferences fails with a not-loaded error in every state in
\* which no load has succeeded (before the first load, after a failed load,
\* after setPreferencesFilePath has reset the cache) and returns the cached
\* value in every state reached after a successful load or update.
C14_GetFailsUnlessLoaded ==
  [][GetStep =>
       IF LoadedSinceReset
         THEN /\ userPreferences # Null
              /\ got' = [status |-> "returned", value |-> userPreferences]
         ELSE /\ got'.status = "raised"
              /\ got'.error = "User preferences have not been loaded yet."]_vars

\* getUserPreferences failed after setPreferencesFilePath had reset a loaded
\* cache, while a later call has not loaded yet.
C14_Witness ==
  /\ got.status = "raised"
  /\ allocatedAtReset # {}
  /\ ~LoadedSinceReset

\* The fields a partial touches: the paths to its values that are not objects.
RECURSIVE Fields(_)
Fields(partial) ==
  UNION {IF isObject(key) THEN {<<key>> \o path : path \in Fields(partial[key])}
         ELSE {<<key>>} : key \in DOMAIN partial}

\* update() call q finds the cache update() call p left, with the preferences
\* p had loaded merged with p's partial, and merges its own partial into it.
AppliedAfter(q, p) ==
  /\ op[p].name = "update" /\ op'[q].name = "update"
  /\ LoadObj(p) \in DOMAIN heap
  /\ userPreferences = MergeObj(p)
  /\ MergeObj(q) \notin DOMAIN heap /\ MergeObj(q) \in DOMAIN heap'
  /\ LoadObj(q) \notin DOMAIN heap'

\* C20: two update() calls whose partials touch disjoint sets of fields leave
\* the same cached preferences whichever of the two is applied first: the
\* cache left by call p then call q is what merging q's partial first and
\* p's second makes of the preferences p started from.
C20_DisjointUpdatesCommute ==
  [][\A p, q \in Calls :
       (AppliedAfter(q, p) /\ Fields(op[p].partial) \cap Fields(op'[q].partial) = {}) =>
         /\ userPreferences' = MergeObj(q)
         /\ Cached' = deepMerge(deepMerge(heap[LoadObj(p)], op'[q].partial),
                                op[p].partial)]_vars

\* Calls 1 and 2 are the only calls, both update(), and call 2 found the cache
\* call 1 had left and merged into it.
SecondAppliedToFirst ==
  /\ issued = 2
  /\ op[1].name = "update" /\ op[2].name = "update"
  /\ {LoadObj(1), MergeObj(1), MergeObj(2)} \subseteq DOMAIN heap
  /\ LoadObj(2) \notin DOMAIN heap

\* Both calls have returned, and their partials touch different fields of one
\* topic.
C20_Witness ==
  /\ SecondAppliedToFirst
  /\ pc[1] = "returned" /\ pc[2] = "returned"
  /\ op[1].partial = [topics |-> [technology |-> [interest_score |-> 99]]]
  /\ op[2].partial = [topics |-> [technology |-> [subtopics |-> [artificial_intelligence |-> 150]]]]

(***************************************************************************)
(* Claims about the provider factory                                       *)
(***************************************************************************)

\* The call asked for a paid tier, supplied an API key, and the constructor
\* of the strategy succeeded.
PaidConstructed(call) ==
  /\ call.config.tier \in {"openai", "claude"}
  /\ "apiKey" \in DOMAIN call.config
  /\ call.config.apiKey # ""
  /\ call.sdk = "constructs"

FeedbackChangedStore ==
  /\ userPreferences # Null
  /\ \E p \in Calls : /\ op[p].name = "feedback" /\ pc[p] = "returned"
                      /\ op[p].article.category = "technology"

\* A run hands preferences to the curation strategy in the step.
RunCurates ==
  /\ Len(runs') = Len(runs) + 1
  /\ runs'[Len(runs')].status = "curated"

\* C11: after a feedback event has changed the Preference Store, the next
\* generateDailyNewsletter run passes the updated preferences to the curation
\* strategy: the topic score the strategy is handed is the one in the store.
C11_RunReadsFeedback ==
  [][(FeedbackChangedStore /\ RunCurates) =>
       runs'[Len(runs')].preferences.topics.technology.interest_score
         = Cached.topics.technology.interest_score]_vars

(***************************************************************************)
(* Further claims about the heuristic strategy                             *)
(***************************************************************************)

\* The position of a candidate in the list handed to curate.
InputPosition(id) == CHOOSE i \in DOMAIN freeCall.articles : freeCall.articles[i] = id

\* C22: in the list the heuristic strategy returns, any two articles with
\* equal final selectionScore appear in the same relative order as in the
\* input candidate list.
C22_TiesKeepInputOrder ==
  freeResult.status = "returned" =>
    \A i, j \in DOMAIN freeResult.articles :
      (i < j /\ freeResult.articles[i].selectionScore = freeResult.articles[j].selectionScore)
        => InputPosition(freeResult.articles[i].id) < InputPosition(freeResult.articles[j].id)

\* What step 4 of the call produced: the ranked and truncated selection.
RankedSelection ==
  finalSelection(freeCall.articles, freeCall.prefs, freeCall.maxArticles)

\* C23: section assignment returns the articles in exactly the order produced
\* by the final ranking and truncation, which is non-increasing in
\* selectionScore, and changes nothing on an article except targetSection.
C23_SectionsKeepRanking ==
  freeResult.status = "returned" =>
    /\ \E ranked \in {RankedSelection} :
         freeResult.articles
           = [i \in DOMAIN ranked |->
                [ranked[i] EXCEPT !.targetSection = freeResult.articles[i].targetSection]]
    /\ \A i \in DOMAIN freeResult.articles :
         i > 1 => freeResult.articles[i - 1].selectionScore
                    >= freeResult.articles[i].selectionScore

\* Three articles of three scores and three sections are returned.
C23_Witness ==
  /\ freeResult.status = "returned"
  /\ Len(freeResult.articles) = 3
  /\ freeResult.articles[1].selectionScore > freeResult.articles[2].selectionScore
  /\ freeResult.articles[2].selectionScore > freeResult.articles[3].selectionScore
  /\ freeResult.articles[1].targetSection = "highlights"
  /\ freeResult.articles[2].targetSection = "technology"
  /\ freeResult.articles[3].targetSection = "business"

\* The positions of the highlights in a list of articles.
Highlights(articles) == {i \in DOMAIN articles : articles[i].targetSection = "highlights"}

\* C24: at most 3 articles have targetSection "highlights", each of them has
\* selectionScore > 60 and is among the 3 highest-ranked articles; every
\* other article's targetSection is its category when that is technology,
\* business or science, and "general" otherwise.
C24_HighlightsAndSections ==
  sectionResult.status = "returned" =>
    LET out == sectionResult.articles
    IN /\ Cardinality(Highlights(out)) <= 3
       /\ \A i \in Highlights(out) : out[i].selectionScore > 6000 /\ i <= 3
       /\ \A i \in DOMAIN out \ Highlights(out) :
            out[i].targetSection =
              IF Catalogue[out[i].id].category \in {"technology", "business", "science"}
                THEN Catalogue[out[i].id].category
                ELSE "general"

\* Four articles above the bar: the fourth is no highlight, and an article of
\* a category without a section of its own is in "general".
C24_Witness ==
  /\ sectionResult.status = "returned"
  /\ Len(sectionResult.articles) = 4
  /\ sectionResult.articles[4].selectionScore > 6000
  /\ sectionResult.articles[4].id = "n7"
  /\ sectionResult.articles[4].targetSection = "general"
  /\ Highlights(sectionResult.articles) = {1, 2, 3}

(***************************************************************************)
(* Further claims about the feedback adapter                               *)
(***************************************************************************)

\* Call p's updateUserPreferences merges in the step: it allocates the merged
\* object and makes it the cache.
UpdateMerges(p) ==
  /\ MergeObj(p) \notin DOMAIN heap
  /\ MergeObj(p) \in DOMAIN heap'
  /\ userPreferences' = MergeObj(p)

\* C25: the cached preferences change only as the effect of an update() call:
\* no step modifies the object that is the cache, the cache is replaced only
\* by the merge of an update(), and a feedback event that returns has called
\* update() once.
C25_CacheChangesOnlyByUpdate ==
  [][/\ userPreferences # Null =>
          /\ heap'[userPreferences] = heap[userPreferences]
          /\ userPreferences' # userPreferences => \E p \in Calls : UpdateMerges(p)
     /\ \A p \in Calls :
          (op[p].name = "feedback" /\ pc'[p] = "returned") => MergeObj(p) \in DOMAIN heap']_vars

\* The storage write of call p fails in the step.
WriteFails(p) == pc[p] = "writing" /\ pc'[p] # "writing" /\ file' # data[p]

\* C29: if the storage write fails during update(), update() raises to its
\* caller (for applyFeedback too), and the cache does not keep the state that
\* failed to persist: it is not left on the object the call merged.
C29_FailedWriteLeavesCache ==
  [][\A p \in Calls :
       WriteFails(p) => /\ pc'[p] = "raised"
                        /\ userPreferences' # MergeObj(p)]_vars

(***************************************************************************)
(* Claims about the feedback processor                                     *)
(***************************************************************************)

\* The process ends in the step because the article id of a well-formed
\* feedback signal is not among the stored curated articles.
EndsOnUnknownArticle ==
  /\ procPc = "reading" /\ procPc' = "exited"
  /\ \A i \in DOMAIN CuratedArticles : CuratedArticles[i].id # procArgs.articleId
  /\ procLog'[Len(procLog')].message # "Failed to process feedback:"

\* C21: a feedback signal whose article id is not found among the curated
\* articles leaves the Preference Store (cache and persisted document)
\* unchanged and ends as a no-op reported with a warning, not as a failure of
\* the feedback operation.
C21_UnknownArticleIsNoOp ==
  [][EndsOnUnknownArticle =>
       /\ file' = file /\ userPreferences' = userPreferences /\ heap' = heap
       /\ procLog'[Len(procLog')].level = "warn"
       /\ procExit' = 0]_vars

(***************************************************************************)
(* Further claims about the paid strategies                                *)
(***************************************************************************)

\* C26: the largest number of candidates the cheaper paid tier (OpenAI) can
\* send to the external call is smaller than the largest number the premium
\* tier (Claude) can send, and the cheaper tier's recency window is shorter
\* than the premium tier's; stated for the strategy in use against the other.
C26_CheaperTierSendsFewer ==
  LET other == IF paidTier = "openai" THEN "claude" ELSE "openai"
      Cap(tier) == IF tier = "openai" THEN OpenAICap ELSE ClaudeCap
      Window(tier) == IF tier = "openai" THEN OpenAIWindow ELSE ClaudeWindow
  IN IF paidTier = "openai"
       THEN Cap(paidTier) < Cap(other) /\ Window(paidTier) < Window(other)
       ELSE Cap(other) < Cap(paidTier) /\ Window(other) < Window(paidTier)

\* Invocation p's external call fails in the step: it throws, or its answer
\* cannot be read.
CallFails(p) ==
  /\ curatePc[p] = "awaiting" /\ curatePc'[p] # "awaiting"
  /\ paidPath'[Len(paidPath')] \in {"threw", "malformed"}

\* C27: each curate() invocation on a paid strategy issues at most one
\* external reasoning call, and a failed call is never retried: the fallback
\* result is returned in the step the failure arrives, with no further call.
C27_OneCallNoRetry ==
  [][/\ externalCalls' <= Cardinality({p \in Curates : curatePc'[p] # "idle"})
     /\ \A p \in Curates :
          CallFails(p) => /\ externalCalls' = externalCalls
                          /\ curatePc'[p] = "returned"
                          /\ paidResult'.curationMethod \in
                               {"Fallback rule-based (OpenAI unavailable)",
                                "Advanced fallback curation (Claude unavailable)"}]_vars

\* Two invocations, each with one external call that threw.
C27_Witness ==
  /\ paidPath = <<"threw", "threw">>
  /\ externalCalls = 2
  /\ \A p \in Curates : curatePc[p] = "returned"

\* C28: on every path (the external call succeeded, or fallback) curate of a
\* paid strategy returns at most maxArticles articles, whatever number of
\* selections the external reasoning service returned.
C28_AtMostMaxArticles ==
  paidResult.status = "returned" => Len(paidResult.articles) <= paidCall.maxArticles

\* The value of a score v after u clamped steps up and then d clamped steps
\* down.
StepsUpThenDown(v, u, d) == Max(0, Min(100, v + u * Adjustment) - d * Adjustment)

\* The events of a log entry are approvals and then rejections: no rejection
\* before all the approvals of the article.
UpsBeforeDowns(entry) ==
  \A i \in DOMAIN entry.events :
    IF i <= entry.up THEN entry.events[i] = "upvote" ELSE entry.events[i] = "downvote"

\* All the events of the article of the loop have completed.
ArticleProcessed == gPc = "events" /\ gUp = 0 /\ gDown = 0

\* The topic, the subtopics and the author the article names end at the value
\* of u steps up followed by d steps down.
ScoresAsCounted ==
  LET article == CuratedArticles[gIndex]
      before == gBefore[1]
      u == gLog[Len(gLog)].up
      d == gLog[Len(gLog)].down
  IN /\ article.category \in DOMAIN before.topics =>
          Stored.topics[article.category].interest_score =
            StepsUpThenDown(before.topics[article.category].interest_score, u, d)
     /\ \A t \in DOMAIN before.topics : \A i \in DOMAIN article.tags :
          ("subtopics" \in DOMAIN before.topics[t]
             /\ article.tags[i] \in DOMAIN before.topics[t].subtopics) =>
            Stored.topics[t].subtopics[article.tags[i]] =
              StepsUpThenDown(before.topics[t].subtopics[article.tags[i]], u, d)
     /\ (article.author # "" /\ u + d > 0) =>
          Stored.authors[article.author].score =
            StepsUpThenDown(IF "authors" \in DOMAIN before
                                 /\ article.author \in DOMAIN before.authors
                              THEN before.authors[article.author].score ELSE 50, u, d)

\* The events of every article are its approvals and then its rejections, one
\* at a time.
EventsInOrder ==
  \A k \in DOMAIN gLog :
    /\ UpsBeforeDowns(gLog[k])
    /\ Len(gLog[k].events) <= gLog[k].up + gLog[k].down
    /\ gLog[k].outcome = "processed" => Len(gLog[k].events) = gLog[k].up + gLog[k].down

\* The loop visits every article, whatever failed before it.
LoopVisitsEveryArticle ==
  /\ \A k \in DOMAIN gLog : gLog[k].article = k
  /\ gPc = "done" => Len(gLog) = Len(CuratedArticles)

\* C30: for an article with u '+1' and d '-1' reactions the feedback is applied
\* one event at a time, the u approvals before the d rejections; when they
\* have all completed each score the article names is at the value of u
\* clamped steps up followed by d clamped steps down; and the loop goes on to
\* the following articles after a failure.
C30_ReactionsAppliedInOrder ==
  /\ EventsInOrder
  /\ LoopVisitsEveryArticle
  /\ ArticleProcessed => ScoresAsCounted

====
